---------------------------- MODULE Spec2Model ----------------------------
(***************************************************************************)
(* Model of the Coulomb collision step functions of ascot5                 *)
(* (src/simulate/mccc/mccc.c and the older src/mccc/mccc.c).               *)
(*                                                                         *)
(* A real is an extended rational <<n, d>> in lowest terms with d >= 0:    *)
(* d > 0 is the finite value n/d, <<1,0>> is +Inf, <<-1,0>> is -Inf and    *)
(* <<0,0>> is NaN, with the IEEE rules for the special values.  Angles are *)
(* counted in quarter turns (pi/2), so that sin, cos and atan2 are exact   *)
(* on the positions the model uses.                                        *)
(***************************************************************************)
EXTENDS Integers, Sequences, FiniteSets, TLC

(***************************************************************************)
(* Extended rational arithmetic (the C type real and <math.h>)             *)
(***************************************************************************)
IAbs(x) == IF x < 0 THEN -x ELSE x

ISign(x) == IF x < 0 THEN -1 ELSE IF x > 0 THEN 1 ELSE 0

RECURSIVE GCD(_, _)
GCD(a, b) == IF b = 0 THEN a ELSE GCD(b, a % b)

Norm(n, d) ==
    IF d = 0 THEN <<ISign(n), 0>>
    ELSE IF n = 0 THEN <<0, 1>>
    ELSE LET g == GCD(IAbs(n), IAbs(d))
             s == IF d < 0 THEN -1 ELSE 1
         IN  <<(s * n) \div g, (s * d) \div g>>

R(n) == <<n, 1>>

Q(n, d) == Norm(n, d)

NaN == <<0, 0>>

IsNaN(a) == a[1] = 0 /\ a[2] = 0

IsInf(a) == a[1] # 0 /\ a[2] = 0

IsFinite(a) == a[2] > 0

RNeg(a) == <<-a[1], a[2]>>

RAbs(a) == <<IAbs(a[1]), a[2]>>

RMul(a, b) == Norm(a[1] * b[1], a[2] * b[2])

RDiv(a, b) ==
    IF IsNaN(a) \/ IsNaN(b) THEN NaN
    ELSE IF IsInf(a) /\ IsInf(b) THEN NaN
    ELSE IF b[1] < 0 THEN Norm(-(a[1] * b[2]), -(a[2] * b[1]))
    ELSE Norm(a[1] * b[2], a[2] * b[1])

RAdd(a, b) ==
    IF IsNaN(a) \/ IsNaN(b) THEN NaN
    ELSE IF IsInf(a) /\ IsInf(b) THEN (IF a[1] = b[1] THEN a ELSE NaN)
    ELSE IF IsInf(a) THEN a
    ELSE IF IsInf(b) THEN b
    ELSE Norm(a[1] * b[2] + b[1] * a[2], a[2] * b[2])

RSub(a, b) == RAdd(a, RNeg(b))

\* a < b in C: false as soon as one side is NaN
RLt(a, b) ==
    /\ ~IsNaN(a)
    /\ ~IsNaN(b)
    /\ IF a[2] = 0 /\ b[2] = 0 THEN a[1] < b[1]
       ELSE a[1] * b[2] < b[1] * a[2]

RGt(a, b) == RLt(b, a)

\* a >= b in C: false as soon as one side is NaN
RGe(a, b) == ~IsNaN(a) /\ ~IsNaN(b) /\ ~RLt(a, b)

IsSquare(n) == \E k \in 0..n : k * k = n

ISqrt(n) == CHOOSE k \in 0..n : k * k = n

ICbrt(n) == CHOOSE k \in 0..n : k * k * k = n

\* sqrt(): exact on the squares of rationals, which are the only finite
\* arguments the model produces
RSqrt(a) ==
    IF IsNaN(a) \/ a[1] < 0 THEN NaN
    ELSE IF IsInf(a) THEN <<1, 0>>
    ELSE <<ISqrt(a[1]), ISqrt(a[2])>>

\* pow(a, -1.0/3) for a >= 0: exact on the cubes of rationals; pow(0, -1/3)
\* is +Inf
RPowMinusThird(a) ==
    IF IsNaN(a) \/ a[1] < 0 THEN NaN
    ELSE IF IsInf(a) THEN R(0)
    ELSE Norm(ICbrt(a[2]), ICbrt(a[1]))

\* pow(a, 2.0)
RPow2(a) == RMul(a, a)


(***************************************************************************)
(* Program constants and model sizes                                       *)
(***************************************************************************)
\* lanes of a particle_simd struct (ascot5.h); the model runs a small vector
NSIMD == 2

\* query points of one libascot call
Neval == 2

\* speeds per query point of one libascot_eval_sigmav call
Nv == 2

\* slots per lane in the coefficient arrays (ascot5.h)
MAX_SPECIES == 2

\* dimension of a Wiener record (mccc_wiener.h)
MCCC_NDIM == 5

\* capacity of a Wiener record (mccc_wiener.h)
MCCC_NSLOTS == 3

\* error flags (mccc.h); mccc_printerror tells them apart
MCCC_WIENER_EXCEEDEDCAPACITY == 10

MCCC_WIENER_NOASSOCIATEDPROCESS == 11

MCCC_PUSH_ISNAN == 20

\* 2*pi in quarter turns
CONST_2PI == 4

Lanes == 0..(NSIMD - 1)

(***************************************************************************)
(* <math.h> on angles counted in quarter turns                             *)
(***************************************************************************)
IsInt(a) == a[2] = 1

\* cos() of an angle that is a whole number of quarter turns
RCos(a) ==
    IF ~IsInt(a) THEN NaN
    ELSE LET k == a[1] % 4
         IN  IF k = 0 THEN R(1) ELSE IF k = 2 THEN R(-1) ELSE R(0)

\* sin() of an angle that is a whole number of quarter turns
RSin(a) ==
    IF ~IsInt(a) THEN NaN
    ELSE LET k == a[1] % 4
         IN  IF k = 1 THEN R(1) ELSE IF k = 3 THEN R(-1) ELSE R(0)

\* atan2(y, x) in quarter turns, for a point on a coordinate axis; the
\* result lies in (-2, 2], atan2(0, 0) = 0
RAtan2(y, x) ==
    IF IsNaN(y) \/ IsNaN(x) THEN NaN
    ELSE IF y[1] = 0 THEN (IF x[1] < 0 THEN R(2) ELSE R(0))
    ELSE IF x[1] = 0 THEN (IF y[1] > 0 THEN R(1) ELSE R(-1))
    ELSE CHOOSE q \in {} : TRUE

\* fmod(a, m) for whole numbers: the result has the sign of a
RFmod(a, m) ==
    IF ~IsInt(a) \/ ~IsInt(m) \/ m[1] = 0 THEN NaN
    ELSE LET k == IAbs(a[1]) % IAbs(m[1])
         IN  IF a[1] < 0 THEN R(-k) ELSE R(k)

\* math_norm / math_normc (math.h): Euclidean norm of a 3-vector
math_normc(x, y, z) == RSqrt(RAdd(RAdd(RMul(x, x), RMul(y, y)), RMul(z, z)))

math_norm(B) == math_normc(B[1], B[2], B[3])

(***************************************************************************)
(* State                                                                   *)
(*                                                                         *)
(* One behaviour is one call of one function of the package: Init draws    *)
(* the function, the build flags and the arguments, the action of the      *)
(* function runs its loop over the lanes and leaves pc = "done".           *)
(***************************************************************************)
VARIABLES
    op,       \* the function that is called
    pc,       \* "call" before the call, "done" after it
    flags,    \* the build: A5_CCOL_NOENERGY, A5_CCOL_NOPITCH, A5_CCOL_NOGCDIFF
    nspec,    \* pdata->n_species
    p,        \* particle_simd_gc: the guiding-center lanes
    pf,       \* particle_simd_fo: the full-orbit lanes
    hin,      \* the time steps handed in (h or hin), per lane
    hout,     \* the proposed next time steps, per lane
    err,      \* the error flags, per lane
    w,        \* the Wiener records, per lane
    rnd,      \* the normal variates mccc_wiener_boxmuller draws, per lane
    coef,     \* the coefficient arrays an update function fills
    loc,      \* the locals of the loop body, as the lane's iteration left them
    env,      \* what the evaluators and the push answer, per lane
    pre,      \* the arguments as they were handed in
    lib,      \* libascot_B_field_rhotheta2rz: its arguments and its output arrays
    h5        \* hdf5_plasma_init_offload: the file, the calls made, the value returned

vars == <<op, pc, flags, nspec, p, pf, hin, hout, err, w, rnd, coef, loc, env, pre, lib, h5>>

(***************************************************************************)
(* Values the arguments are drawn from                                     *)
(***************************************************************************)
Vec3(x, y, z) == <<x, y, z>>

Zero5 == <<R(0), R(0), R(0), R(0), R(0)>>

NaN3 == <<NaN, NaN, NaN>>

\* a magnetic field sample: the vector and a tag for its nine derivatives
FieldSample(br, bphi, bz, d) == [B_r |-> br, B_phi |-> bphi, B_z |-> bz, dB |-> d]

FieldUnit == FieldSample(R(0), R(1), R(0), 1)

FieldStrong == FieldSample(R(0), R(4), R(0), 2)

\* what an output buffer holds when the evaluator failed and wrote nothing
FieldGarbage == FieldSample(NaN, R(0), R(7), 9)

\* magnetic axis of Bdata (B_field_get_axis_r, B_field_get_axis_z)
axis_r == R(2)

axis_z == R(0)

GcLane(run, mu, vpar, r, phi, z, pol, fld, rho) ==
    [running |-> run, mass |-> R(1), mu |-> mu, vpar |-> vpar, r |-> r,
     phi |-> phi, z |-> z, pol |-> pol, fld |-> fld, rho |-> rho]

\* v = 2, pitch 0, on the outboard midplane
GcPerp(run) == GcLane(run, R(2), R(0), R(3), R(0), R(0), R(0), FieldUnit, Q(1, 2))

\* v = 2, pitch 1, inboard, after more than one toroidal turn
GcPara(run) == GcLane(run, R(0), R(2), R(1), R(5), R(0), R(-4), FieldStrong, Q(1, 4))

\* a marker at rest
GcRest(run) == GcLane(run, R(0), R(0), R(2), R(-1), R(1), R(0), FieldUnit, Q(1, 2))

FoLane(run, r, phi, z, rdot, phidot, zdot, rho) ==
    [running |-> run, mass |-> R(1), r |-> r, phi |-> phi, z |-> z,
     rdot |-> rdot, phidot |-> phidot, zdot |-> zdot, rho |-> rho]

FoA(run) == FoLane(run, R(2), R(1), R(0), R(3), R(2), R(0), Q(1, 2))

FoB(run) == FoLane(run, R(1), R(0), R(1), R(0), R(0), R(1), Q(1, 4))

\* Wiener record: n used slots; slot 0 is the committed checkpoint
WienerRec(init, n, time, wiener) ==
    [init |-> init, n |-> n, time |-> time, wiener |-> wiener]

Slots == 0..(MCCC_NSLOTS - 1)

\* a record holding the checkpoint only, at time 0
WFresh == WienerRec(TRUE, 1, [k \in Slots |-> R(0)],
                    [k \in Slots |-> IF k = 0 THEN <<R(1), R(0), R(0), R(1), R(2)>> ELSE Zero5])

\* a record that also holds a sample at time 4
WAhead == WienerRec(TRUE, 2, [k \in Slots |-> IF k = 1 THEN R(4) ELSE R(0)],
                    [k \in Slots |-> IF k = 0 THEN <<R(1), R(0), R(0), R(1), R(2)>>
                                     ELSE IF k = 1 THEN <<R(3), R(0), R(2), R(5), R(2)>>
                                     ELSE Zero5])

\* a record with every slot used, at times 0, 8, 16, ...
WFull == WienerRec(TRUE, MCCC_NSLOTS, [k \in Slots |-> R(8 * k)],
                   [k \in Slots |-> <<R(k), R(0), R(0), R(1 + k), R(2)>>])

\* a record mccc_wiener_initialize was never called on
WUninit == WienerRec(FALSE, 0, [k \in Slots |-> R(0)], [k \in Slots |-> Zero5])

RandSet ==
    { <<R(0), R(0), R(0), R(0), R(0)>>,
      <<R(1), R(1), R(0), R(3), R(0)>>,
      <<R(0), R(1), R(1), R(0), R(-3)>>,
      <<R(-1), R(0), R(1), R(-3), R(1)>> }

RandPlain == <<R(1), R(0), R(1), R(1), R(1)>>


(***************************************************************************)
(* Answers of the code outside this package, per lane and call: the plasma *)
(* evaluator, the push, the field evaluators.  A failed evaluator leaves   *)
(* its output buffer as it was, an uninitialised local.                    *)
(***************************************************************************)
\* error ratios are sixth powers, so that sqrt() and pow(.,-1/3) are exact
Pow6(s) == RMul(RMul(RMul(s, s), RMul(s, s)), RMul(s, s))

KappaSet == { Pow6(Q(0, 1)), Pow6(Q(1, 2)), Pow6(Q(1, 1)), Pow6(Q(3, 2)) }

PlasmaOut(ok, temp0) == [ok |-> ok, temp0 |-> temp0]

PushOut(vout, xiout, Xout, kk, kd0, kd1, e) ==
    [vout |-> vout, xiout |-> xiout, Xout |-> Xout,
     kappa_k |-> kk, kappa_d0 |-> kd0, kappa_d1 |-> kd1, err |-> e]

\* outcomes of the push: speed, pitch, position
Kin == { <<R(1), R(1), Vec3(R(0), R(1), R(0))>>,
         <<R(2), R(0), Vec3(R(0), R(-2), R(1))>>,
         <<R(1), R(-1), Vec3(R(-3), R(0), R(0))>> }

KinPlain == <<R(1), R(0), Vec3(R(0), R(3), R(0))>>

EvalOut(ok, val) == [ok |-> ok, val |-> val]

Scenario(pl, pu, fo, fl, rh, tix) ==
    [plasma |-> pl, push |-> pu, pushfo |-> fo, field |-> fl, rho |-> rh, tix |-> tix]

PlasmaPlain == PlasmaOut(TRUE, R(100))

PushPlain == PushOut(KinPlain[1], KinPlain[2], KinPlain[3],
                     Pow6(Q(1, 2)), Pow6(Q(1, 2)), Pow6(Q(1, 2)), 0)

\* the push yields NaN and reports it
PushFailed == PushOut(NaN, NaN, NaN3, NaN, NaN, NaN, MCCC_PUSH_ISNAN)

FoPushOut(vout, e) == [vout |-> vout, err |-> e]

FoPushPlain == FoPushOut(Vec3(R(3), R(4), R(0)), 0)

FoPushFailed == FoPushOut(NaN3, MCCC_PUSH_ISNAN)

FieldPlain == EvalOut(TRUE, FieldStrong)

RhoPlain == EvalOut(TRUE, Q(3, 4))

ScPlain == Scenario(PlasmaPlain, PushPlain, FoPushPlain, FieldPlain, RhoPlain, 0)

\* every combination of error ratios
ScDecide ==
    { Scenario(PlasmaPlain,
               PushOut(KinPlain[1], KinPlain[2], KinPlain[3], kk, kd0, kd1, 0),
               FoPushPlain, FieldPlain, RhoPlain, 0) :
      kk \in KappaSet, kd0 \in KappaSet, kd1 \in KappaSet }

\* every outcome of the push and of the evaluators, rejected or accepted
ScOutcome ==
    { Scenario(pl, pu, fo, fl, rh, tix) :
      pl \in {PlasmaPlain},
      pu \in { PushOut(k[1], k[2], k[3], kk, Pow6(Q(1, 2)), Pow6(Q(1, 1)), 0) :
               k \in Kin, kk \in {Pow6(Q(1, 2)), Pow6(Q(3, 2))} },
      fo \in {FoPushOut(Vec3(R(0), R(0), R(2)), 0)},
      fl \in {EvalOut(TRUE, FieldUnit), FieldPlain},
      rh \in {RhoPlain},
      tix \in {0} }

\* one component fails
ScFailure ==
    { Scenario(PlasmaPlain, PushFailed, FoPushFailed, FieldPlain, RhoPlain, 0),
      Scenario(PlasmaOut(FALSE, NaN), PushPlain, FoPushPlain, FieldPlain, RhoPlain, 0),
      Scenario(PlasmaOut(FALSE, R(0)), PushFailed, FoPushFailed, FieldPlain, RhoPlain, 0),
      Scenario(PlasmaPlain, PushPlain, FoPushPlain, EvalOut(FALSE, FieldGarbage), RhoPlain, 0),
      Scenario(PlasmaPlain, PushPlain, FoPushPlain, FieldPlain, EvalOut(FALSE, NaN), 0),
      Scenario(PlasmaPlain, PushPlain, FoPushPlain, FieldPlain, EvalOut(FALSE, R(5)), 0) }

\* what the index left by a failed mccc_wiener_generate may be
ScStale ==
    { Scenario(PlasmaPlain, pu, FoPushPlain, FieldPlain, RhoPlain, tix) :
      pu \in {PushPlain, PushFailed}, tix \in Slots }


(***************************************************************************)
(* Wiener path manager (mccc_wiener.c)                                     *)
(***************************************************************************)
VecAdd(a, b) == [k \in 1..MCCC_NDIM |-> RAdd(a[k], b[k])]

VecSub(a, b) == [k \in 1..MCCC_NDIM |-> RSub(a[k], b[k])]

VecScale(c, a) == [k \in 1..MCCC_NDIM |-> RMul(c, a[k])]

Used(wr) == 0..(wr.n - 1)

\* the stored sample nearest below t, and nearest above t
Below(wr, t) ==
    CHOOSE k \in Used(wr) :
        /\ RLt(wr.time[k], t)
        /\ \A j \in Used(wr) : RLt(wr.time[j], t) => ~RLt(wr.time[k], wr.time[j])

Above(wr, t) ==
    CHOOSE k \in Used(wr) :
        /\ RGt(wr.time[k], t)
        /\ \A j \in Used(wr) : RGt(wr.time[j], t) => ~RGt(wr.time[k], wr.time[j])

GenOut(wr, windex, e) == [w |-> wr, windex |-> windex, err |-> e]

\* a store that takes the slot of the last sample instead of a free one
Store_overwrite(wr, t, val) ==
    [wr EXCEPT !.time = [wr.time EXCEPT ![wr.n - 1] = t],
               !.wiener = [wr.wiener EXCEPT ![wr.n - 1] = val]]

Store(wr, t, val) ==
    [wr EXCEPT !.n = wr.n + 1,
               !.time = [wr.time EXCEPT ![wr.n] = t],
               !.wiener = [wr.wiener EXCEPT ![wr.n] = val]]

\* an extend that, the record being full, takes the slot of the last sample
mccc_wiener_generate_unchecked(wr, t, rand5) ==
    IF ~wr.init THEN GenOut(wr, -1, MCCC_WIENER_NOASSOCIATEDPROCESS)
    ELSE IF \E k \in Used(wr) : wr.time[k] = t
    THEN GenOut(wr, CHOOSE k \in Used(wr) : wr.time[k] = t, 0)
    ELSE GenOut([wr EXCEPT !.time = [wr.time EXCEPT ![wr.n - 1] = t],
                           !.wiener = [wr.wiener EXCEPT ![wr.n - 1] = rand5]],
                wr.n - 1, 0)

\* extend: the record index of time t, a new sample being drawn from rand5
\* when t is not stored yet; windex = -1 stands for "not set"
mccc_wiener_generate(wr, t, rand5) ==
    IF ~wr.init THEN GenOut(wr, -1, MCCC_WIENER_NOASSOCIATEDPROCESS)
    ELSE IF \E k \in Used(wr) : wr.time[k] = t
    THEN GenOut(wr, CHOOSE k \in Used(wr) : wr.time[k] = t, 0)
    ELSE IF wr.n >= MCCC_NSLOTS THEN GenOut(wr, -1, MCCC_WIENER_EXCEEDEDCAPACITY)
    ELSE IF \A k \in Used(wr) : RLt(wr.time[k], t)
    THEN \* beyond the stored samples: an independent increment of variance dt
         LET im == Below(wr, t)
             dt == RSub(t, wr.time[im])
             val == VecAdd(wr.wiener[im], VecScale(RSqrt(dt), rand5))
         IN  GenOut(Store(wr, t, val), wr.n, 0)
    ELSE \* between two stored samples: Brownian bridge
         LET im == Below(wr, t)
             ip == Above(wr, t)
             span == RSub(wr.time[ip], wr.time[im])
             lo == RSub(t, wr.time[im])
             hi == RSub(wr.time[ip], t)
             mean == VecAdd(wr.wiener[im],
                            VecScale(RDiv(lo, span), VecSub(wr.wiener[ip], wr.wiener[im])))
             sd == RSqrt(RDiv(RMul(lo, hi), span))
         IN  GenOut(Store(wr, t, VecAdd(mean, VecScale(sd, rand5))), wr.n, 0)


(***************************************************************************)
(* Coefficient evaluators (mccc_coefs.c): one value per plasma species     *)
(***************************************************************************)
CoefSlots == 0..(NSIMD * MAX_SPECIES - 1)

CoefVal(kind, v, x, j) == [kind |-> kind, v |-> v, xi |-> x, species |-> j]

\* a slot nothing was written to
CoefNone == CoefVal("none", NaN, NaN, -1)

mccc_coefs_clog(va, j) == CoefVal("clog", va, NaN, j)

mccc_coefs_fo(va, clog, j) == CoefVal("fo", clog.v, NaN, j)

mccc_coefs_gcadaptive(va, xi, clog, j) == CoefVal("gcadaptive", clog.v, xi, j)

\* the array mccc_coefs_clog fills for speed v: one logarithm per species
Clogab(v) == [j \in 0..(nspec - 1) |-> mccc_coefs_clog(v, j)]

\* mccc_coefs_clog(mass, charge, v, ..., dens, temp, clogab, n_species): the
\* call as a record of its arguments, clogab being what it leaves there
ClogCall(v, dt) ==
    [fn |-> "mccc_coefs_clog", v |-> v, xi |-> NaN, denstemp |-> dt, clogab |-> Clogab(v)]

\* an evaluator that is handed a clogab array other than the one just filled
EvalCall_stale(fn, v, xi, dt, clogab) ==
    [fn |-> fn, v |-> v, xi |-> xi, denstemp |-> dt,
     clogab |-> [j \in DOMAIN clogab |-> CoefNone]]

\* mccc_coefs_fo / _gcfixed / _gcadaptive(mass, charge, v, [xi,] ..., dens,
\* temp, [Bnorm,] clogab, n_species, ...): the call as a record of its arguments
EvalCall(fn, v, xi, dt, clogab) ==
    [fn |-> fn, v |-> v, xi |-> xi, denstemp |-> dt, clogab |-> clogab]

(***************************************************************************)
(* Step controller of src/simulate/mccc/mccc.c                             *)
(***************************************************************************)
\* locals of a lane that the loop has not entered
LocUnset ==
    [done |-> FALSE, vin |-> NaN, xiin |-> NaN, cutoff |-> NaN, Bnorm |-> NaN,
     gen_err |-> 0, tindex |-> -1, dW |-> [k \in 1..MCCC_NDIM |-> NaN],
     vout |-> NaN, xiout |-> NaN, Xout |-> NaN3,
     kappa_k |-> NaN, kappa_d0 |-> NaN, kappa_d1 |-> NaN, rejected |-> FALSE,
     va |-> NaN, fvin |-> NaN3, fvout |-> NaN3, ki |-> 0, calls |-> <<>>,
     channel |-> "none"]

\* if(p->running[i]): what the loop of every function asks of a lane first
IsRunning(ln) == ln.running

\* the accept/reject decision
Rejected_ge(kk, kd0, kd1) == RGe(kk, R(1)) \/ RGe(kd0, R(1)) \/ RGe(kd1, R(1))

Rejected(kk, kd0, kd1) == RGt(kk, R(1)) \/ RGt(kd0, R(1)) \/ RGt(kd1, R(1))

\* the three estimates of the next time step
StepDrift(h, kk) == RDiv(RMul(Q(8, 10), h), RSqrt(kk))

StepDiff_unsquared(dWc, kd) == RMul(RMul(Q(9, 10), RAbs(dWc)), RPowMinusThird(kd))

StepDiff(dWc, kd) == RPow2(RMul(RMul(Q(9, 10), RAbs(dWc)), RPowMinusThird(kd)))

\* the branch of the if / else if / else that proposes the next time step
Channel(kk, kd0, kd1) ==
    IF RGe(kk, kd0) /\ RGe(kk, kd1) THEN "drift"
    ELSE IF RGe(kd0, kk) /\ RGe(kd0, kd1) THEN "diffusion0"
    ELSE "diffusion1"

\* magnitude of the next time step: the dominant error estimate decides
NextStep(h, kk, kd0, kd1, dW) ==
    CASE Channel(kk, kd0, kd1) = "drift" -> StepDrift(h, kk)
      [] Channel(kk, kd0, kd1) = "diffusion0" -> StepDiff(dW[4], kd0)
      [] OTHER -> StepDiff(dW[5], kd1)

\* negative value indicates the time step was rejected
SignedStep(rejected, h) == IF rejected THEN RNeg(h) ELSE h

\* cumulative poloidal angle
PolAfter(pol, R0, z0, r, z) ==
    RAdd(pol,
         RAtan2(RSub(RMul(RSub(R0, axis_r), RSub(z, axis_z)),
                     RMul(RSub(z0, axis_z), RSub(r, axis_r))),
                RAdd(RMul(RSub(R0, axis_r), RSub(r, axis_r)),
                     RMul(RSub(z0, axis_z), RSub(z, axis_z)))))

\* cumulative toroidal angle
PhiAfter(phi0, Xout) ==
    LET t0 == RFmod(phi0, R(CONST_2PI))
        t1 == IF RLt(t0, R(0)) THEN RAdd(R(CONST_2PI), t0) ELSE t0
        t2 == RSub(RFmod(RAdd(RAtan2(Xout[2], Xout[1]), R(CONST_2PI)), R(CONST_2PI)), t1)
    IN  RAdd(phi0, t2)

\* speed of a guiding center from (vpar, mu, mass, |B|)
GcSpeed(ln, Bnorm) ==
    RSqrt(RAdd(RMul(ln.vpar, ln.vpar), RDiv(RMul(RMul(R(2), ln.mu), Bnorm), ln.mass)))

\* magnetic moment from (xi, v, mass, |B|)
GcMu_plus(xi, v, mass, Bnorm) ==
    RDiv(RMul(RMul(RAdd(R(1), RMul(xi, xi)), mass), RMul(v, v)), RMul(R(2), Bnorm))

GcMu(xi, v, mass, Bnorm) ==
    RDiv(RMul(RMul(RSub(R(1), RMul(xi, xi)), mass), RMul(v, v)), RMul(R(2), Bnorm))

GcXin_flat(ln) == Vec3(RMul(ln.r, RCos(ln.phi)), RMul(ln.r, RSin(ln.phi)), R(0))

GcXin(ln) == Vec3(RMul(ln.r, RCos(ln.phi)), RMul(ln.r, RSin(ln.phi)), ln.z)

\* 0.1*sqrt(temp[0]/mass)
Cutoff(temp0, mass) == RMul(Q(1, 10), RSqrt(RDiv(temp0, mass)))

\* real t = w[i]->time[0]; the extend is asked for t + hin[i]
ExtendTime(wr, h) == RAdd(wr.time[0], h)

\* dW[k] = wiener[tindex*MCCC_NDIM + k] - wiener[k]
Increment_reversed(wr, tindex) == VecSub(wr.wiener[0], wr.wiener[tindex])

Increment(wr, tindex) == VecSub(wr.wiener[tindex], wr.wiener[0])

\* loop body of mccc_step_gc_adaptive for lane i
AdaptiveLane(m, i) ==
    IF ~IsRunning(m.p[i]) THEN m
    ELSE
    LET ln == m.p[i]
        sc == env[i]
        Bnorm == math_norm(Vec3(ln.fld.B_r, ln.fld.B_phi, ln.fld.B_z))
        vin == GcSpeed(ln, Bnorm)
        xiin == RDiv(ln.vpar, vin)
        cutoff == Cutoff(sc.plasma.temp0, ln.mass)
        t == m.w[i].time[0]
        gen == mccc_wiener_generate(m.w[i], ExtendTime(m.w[i], hin[i]), rnd[i])
        err1 == IF gen.err # 0 THEN gen.err ELSE m.err[i]
        tix == IF gen.err # 0 THEN sc.tix ELSE gen.windex
        dW == Increment(gen.w, tix)
        Xin == GcXin(ln)
        err2 == IF sc.push.err # 0 THEN sc.push.err ELSE err1
        vout == IF flags.noenergy THEN vin ELSE sc.push.vout
        xiout == IF flags.nopitch THEN xiin ELSE sc.push.xiout
        Xout == IF flags.nogcdiff THEN Xin ELSE sc.push.Xout
        r1 == RSqrt(RAdd(RMul(Xout[1], Xout[1]), RMul(Xout[2], Xout[2])))
        z1 == Xout[3]
        kk == sc.push.kappa_k
        kd0 == sc.push.kappa_d0
        kd1 == sc.push.kappa_d1
        rejected == Rejected(kk, kd0, kd1)
        ln1 == [ln EXCEPT !.mu = GcMu(xiout, vout, ln.mass, Bnorm),
                          !.vpar = RMul(vout, xiout),
                          !.r = r1,
                          !.z = z1,
                          !.pol = PolAfter(ln.pol, ln.r, ln.z, r1, z1),
                          !.phi = PhiAfter(ln.phi, Xout),
                          !.fld = sc.field.val,
                          !.rho = sc.rho.val]
        lc == [LocUnset EXCEPT
               !.done = TRUE, !.vin = vin, !.xiin = xiin, !.cutoff = cutoff,
               !.Bnorm = Bnorm, !.gen_err = gen.err,
               !.tindex = IF rejected THEN 0 ELSE tix, !.dW = dW,
               !.vout = vout, !.xiout = xiout, !.Xout = Xout,
               !.kappa_k = kk, !.kappa_d0 = kd0, !.kappa_d1 = kd1,
               !.rejected = rejected, !.channel = Channel(kk, kd0, kd1),
               !.calls = <<ClogCall(vin, sc.plasma),
                           EvalCall("mccc_coefs_gcadaptive", vin, xiin, sc.plasma,
                                    Clogab(vin))>>]
    IN  [m EXCEPT !.p[i] = ln1,
                  !.hout[i] = SignedStep(rejected, NextStep(hin[i], kk, kd0, kd1, dW)),
                  !.err[i] = err2,
                  !.w[i] = gen.w,
                  !.loc[i] = lc]

\* writes of one lane into an array laid out as D[i*MAX_SPECIES + s]
WriteSlots(arr, i, val) ==
    [k \in CoefSlots |->
        IF k >= i * MAX_SPECIES /\ k < i * MAX_SPECIES + nspec
        THEN val[k - i * MAX_SPECIES] ELSE arr[k]]

\* lane i writes n_species values at &D[i*MAX_SPECIES]: with more than
\* MAX_SPECIES species the last lane writes past the end of the array, into
\* memory that is not part of this model
WritesPastEnd(i) == i * MAX_SPECIES + nspec > NSIMD * MAX_SPECIES

\* speed of a full-orbit marker
FoSpeed(ln) ==
    RSqrt(RAdd(RAdd(RMul(ln.rdot, ln.rdot),
                    RMul(RMul(ln.r, ln.phidot), RMul(ln.r, ln.phidot))),
               RMul(ln.zdot, ln.zdot)))

\* loop body of mccc_update_fo for lane i
UpdateFoLane(m, i) ==
    IF ~IsRunning(m.pf[i]) THEN m
    ELSE
    LET ln == m.pf[i]
        va == FoSpeed(ln)
        clog == Clogab(va)
        rest == [j \in 0..(nspec - 1) |-> mccc_coefs_fo(va, clog[j], j)]
    IN  [m EXCEPT !.coef.clogab = WriteSlots(m.coef.clogab, i, clog),
                  !.coef.rest = WriteSlots(m.coef.rest, i, rest),
                  !.coef.stray = @ \/ WritesPastEnd(i),
                  !.loc[i] = [LocUnset EXCEPT
                      !.done = TRUE, !.va = va,
                      !.calls = <<ClogCall(va, env[i].plasma),
                                  EvalCall("mccc_coefs_fo", va, NaN, env[i].plasma, clog)>>]]

\* speed of a guiding center as mccc_update_gc and mccc_collfreq_gc form it
GcSpeedUpdate(ln, Bnorm) ==
    LET t == RMul(RMul(RMul(R(2), ln.mu), Bnorm), ln.mass)
    IN  RSqrt(RAdd(RMul(ln.vpar, ln.vpar), RMul(t, t)))

\* loop body of mccc_update_gc for lane i
UpdateGcLane(m, i) ==
    IF ~IsRunning(m.p[i]) THEN m
    ELSE
    LET ln == m.p[i]
        Bnorm == math_norm(Vec3(ln.fld.B_r, ln.fld.B_phi, ln.fld.B_z))
        va == GcSpeedUpdate(ln, Bnorm)
        xi == RDiv(ln.vpar, va)
        clog == Clogab(va)
        rest == [j \in 0..(nspec - 1) |-> mccc_coefs_gcadaptive(va, xi, clog[j], j)]
    IN  [m EXCEPT !.coef.clogab = WriteSlots(m.coef.clogab, i, clog),
                  !.coef.rest = WriteSlots(m.coef.rest, i, rest),
                  !.coef.stray = @ \/ WritesPastEnd(i),
                  !.loc[i] = [LocUnset EXCEPT
                      !.done = TRUE, !.va = va, !.xiin = xi, !.Bnorm = Bnorm,
                      !.calls = <<ClogCall(va, env[i].plasma),
                                  EvalCall("mccc_coefs_gcadaptive", va, xi, env[i].plasma,
                                           clog)>>]]

FoVin(ln) ==
    Vec3(RSub(RMul(ln.rdot, RCos(ln.phi)), RMul(RMul(ln.phidot, ln.r), RSin(ln.phi))),
         RAdd(RMul(ln.rdot, RSin(ln.phi)), RMul(RMul(ln.phidot, ln.r), RCos(ln.phi))),
         ln.zdot)

Scale3(c, v) == Vec3(RMul(c, v[1]), RMul(c, v[2]), RMul(c, v[3]))

\* the push result after the build flags of the full-orbit step
FoFlagged(va, vin, vout) ==
    IF flags.noenergy THEN Scale3(RDiv(va, math_norm(vout)), vout)
    ELSE IF flags.nopitch THEN Scale3(RDiv(math_norm(vout), va), vin)
    ELSE vout

\* velocity written back to a full-orbit lane
FoWrite(ln, vout) ==
    [ln EXCEPT !.rdot = RAdd(RMul(vout[1], RCos(ln.phi)), RMul(vout[2], RSin(ln.phi))),
               !.phidot = RDiv(RAdd(RMul(RNeg(vout[1]), RSin(ln.phi)),
                                    RMul(vout[2], RCos(ln.phi))), ln.r),
               !.zdot = vout[3]]

\* loop body of mccc_step_fo_fixed for lane i: the push reports into err[i]
StepFoLane(m, i) ==
    IF ~IsRunning(m.pf[i]) THEN m
    ELSE
    LET ln == m.pf[i]
        sc == env[i]
        va == FoSpeed(ln)
        vin == FoVin(ln)
        vout == FoFlagged(va, vin, sc.pushfo.vout)
    IN  [m EXCEPT !.pf[i] = FoWrite(ln, vout),
                  !.err[i] = IF sc.pushfo.err # 0 THEN sc.pushfo.err ELSE @,
                  !.loc[i] = [LocUnset EXCEPT
                      !.done = TRUE, !.va = va, !.fvin = vin, !.fvout = vout,
                      !.calls = <<ClogCall(va, sc.plasma),
                                  EvalCall("mccc_coefs_fo", va, NaN, sc.plasma, Clogab(va))>>]]

\* loop body of mccc_step_gc_fixed for lane i
StepGcLane(m, i) ==
    IF ~IsRunning(m.p[i]) THEN m
    ELSE
    LET ln == m.p[i]
        sc == env[i]
        Bnorm == math_norm(Vec3(ln.fld.B_r, ln.fld.B_phi, ln.fld.B_z))
        vin == GcSpeed(ln, Bnorm)
        xiin == RDiv(ln.vpar, vin)
        cutoff == Cutoff(sc.plasma.temp0, ln.mass)
        Xin == GcXin(ln)
        vout == IF flags.noenergy THEN vin ELSE sc.push.vout
        xiout == IF flags.nopitch THEN xiin ELSE sc.push.xiout
        Xout == IF flags.nogcdiff THEN Xin ELSE sc.push.Xout
        r1 == RSqrt(RAdd(RMul(Xout[1], Xout[1]), RMul(Xout[2], Xout[2])))
        z1 == Xout[3]
        fld1 == sc.field.val
        Bnorm1 == math_normc(fld1.B_r, fld1.B_phi, fld1.B_z)
        ln1 == [ln EXCEPT !.r = r1,
                          !.z = z1,
                          !.pol = PolAfter(ln.pol, ln.r, ln.z, r1, z1),
                          !.phi = PhiAfter(ln.phi, Xout),
                          !.fld = fld1,
                          !.rho = sc.rho.val,
                          !.mu = GcMu(xiout, vout, ln.mass, Bnorm1),
                          !.vpar = RMul(vout, xiout)]
    IN  [m EXCEPT !.p[i] = ln1,
                  !.err[i] = IF sc.push.err # 0 THEN sc.push.err ELSE @,
                  !.loc[i] = [LocUnset EXCEPT !.done = TRUE, !.vin = vin, !.xiin = xiin,
                                              !.cutoff = cutoff, !.Bnorm = Bnorm1,
                                              !.vout = vout, !.xiout = xiout,
                                              !.Xout = Xout,
                      !.calls = <<ClogCall(vin, sc.plasma),
                                  EvalCall("mccc_coefs_gcfixed", vin, xiin, sc.plasma,
                                           Clogab(vin))>>]]

(***************************************************************************)
(* The older package, src/mccc/mccc.c.  It evaluates the field and rho at  *)
(* the marker position itself, draws its variates inside the callees, and  *)
(* probes the Wiener path to propose the next step.                        *)
(***************************************************************************)
\* loop body of the older mccc_step_fo_fixed: the push is handed err, which
\* is &err[0], whatever the lane
LegacyStepFoLane(m, i) ==
    IF ~IsRunning(m.pf[i]) THEN m
    ELSE
    LET ln == m.pf[i]
        sc == env[i]
        va == FoSpeed(ln)
        vin == FoVin(ln)
        vout == sc.pushfo.vout
    IN  [m EXCEPT !.pf[i] = FoWrite(ln, vout),
                  !.err[0] = IF sc.pushfo.err # 0 THEN sc.pushfo.err ELSE @,
                  !.loc[i] = [LocUnset EXCEPT
                      !.done = TRUE, !.va = va, !.fvin = vin, !.fvout = vout,
                      !.calls = <<ClogCall(va, sc.plasma),
                                  EvalCall("mccc_coefs_fo", va, NaN, sc.plasma, Clogab(va))>>]]

\* loop body of the older mccc_step_gc_fixed
LegacyStepGcLane(m, i) ==
    IF ~IsRunning(m.p[i]) THEN m
    ELSE
    LET ln == m.p[i]
        sc == env[i]
        B == sc.field.val
        Bnorm == math_norm(Vec3(B.B_r, B.B_phi, B.B_z))
        vin == GcSpeed(ln, Bnorm)
        xiin == RDiv(ln.vpar, vin)
        vout == sc.push.vout
        xiout == sc.push.xiout
        Xout == sc.push.Xout
        ln1 == [ln EXCEPT !.mu = GcMu(xiout, vout, ln.mass, Bnorm),
                          !.vpar = RMul(vout, xiout),
                          !.r = RSqrt(RAdd(RMul(Xout[1], Xout[1]), RMul(Xout[2], Xout[2]))),
                          !.phi = RAtan2(Xout[2], Xout[1]),
                          !.z = Xout[3]]
    IN  [m EXCEPT !.p[i] = ln1,
                  !.err[i] = IF sc.push.err # 0 THEN sc.push.err ELSE @,
                  !.loc[i] = [LocUnset EXCEPT !.done = TRUE, !.vin = vin, !.xiin = xiin,
                                              !.cutoff = R(0), !.Bnorm = Bnorm,
                                              !.vout = vout, !.xiout = xiout,
                                              !.Xout = Xout,
                      !.calls = <<ClogCall(vin, sc.plasma),
                                  EvalCall("mccc_coefs_gcfixed", vin, xiin, sc.plasma,
                                           Clogab(vin))>>]]

\* the older extend draws its variates itself: inc is what it adds to the
\* sample below t
mccc_wiener_generate_legacy(wr, t, inc) ==
    IF ~wr.init THEN GenOut(wr, -1, MCCC_WIENER_NOASSOCIATEDPROCESS)
    ELSE IF \E k \in Used(wr) : wr.time[k] = t
    THEN GenOut(wr, CHOOSE k \in Used(wr) : wr.time[k] = t, 0)
    ELSE IF wr.n >= MCCC_NSLOTS THEN GenOut(wr, -1, MCCC_WIENER_EXCEEDEDCAPACITY)
    ELSE GenOut(Store(wr, t, VecAdd(wr.wiener[Below(wr, t)], inc)), wr.n, 0)

ProbeOut(wr, e, ki) == [w |-> wr, err |-> e, ki |-> ki]

\* for(ki=1; ki < 4; ki=ki+1) of the drift branch: extend at t + ki*dti/3 and
\* stop at the first increment beyond dWopt
RECURSIVE ProbeDrift(_, _, _, _, _, _, _, _, _)
ProbeDrift(wr, e, ki, t, dti, tindex, dWopt, inc, stale) ==
    IF ki >= 4 THEN ProbeOut(wr, e, ki)
    ELSE
    LET gen == mccc_wiener_generate_legacy(wr, RAdd(t, RDiv(RMul(R(ki), dti), R(3))), inc)
        e1 == IF gen.err # 0 THEN gen.err ELSE e
        windex == IF gen.err # 0 THEN stale ELSE gen.windex
        d3 == RAbs(RSub(gen.w.wiener[windex][4], gen.w.wiener[tindex][4]))
        d4 == RAbs(RSub(gen.w.wiener[windex][5], gen.w.wiener[tindex][5]))
    IN  IF RGt(d3, dWopt[1]) \/ RGt(d4, dWopt[2]) THEN ProbeOut(gen.w, e1, ki)
        ELSE ProbeDrift(gen.w, e1, ki + 1, t, dti, tindex, dWopt, inc, stale)

\* for(ki=1; ki < 4; ki=ki+1) of the other branch: "exit;" is an expression
\* statement, the loop always runs to ki = 4
RECURSIVE ProbeDiff(_, _, _, _, _, _)
ProbeDiff(wr, e, ki, t, h, inc) ==
    IF ki >= 4 THEN ProbeOut(wr, e, ki)
    ELSE
    LET gen == mccc_wiener_generate_legacy(wr, RAdd(t, RDiv(RMul(R(ki), h), R(3))), inc)
    IN  ProbeDiff(gen.w, IF gen.err # 0 THEN gen.err ELSE e, ki + 1, t, h, inc)

\* ki == 1 ? step/3 : (ki-1)*(step/3)
ProbedStep(ki, step) ==
    IF ki = 1 THEN RDiv(step, R(3)) ELSE RMul(R(ki - 1), RDiv(step, R(3)))

\* loop body of the older mccc_step_gc_adaptive
LegacyAdaptiveLane(m, i) ==
    IF ~IsRunning(m.p[i]) THEN m
    ELSE
    LET ln == m.p[i]
        sc == env[i]
        B == sc.field.val
        Bnorm == math_norm(Vec3(B.B_r, B.B_phi, B.B_z))
        vin == GcSpeed(ln, Bnorm)
        xiin == RDiv(ln.vpar, vin)
        t == m.w[i].time[0]
        gen == mccc_wiener_generate_legacy(m.w[i], ExtendTime(m.w[i], hin[i]), rnd[i])
        err1 == IF gen.err # 0 THEN gen.err ELSE m.err[i]
        tix == IF gen.err # 0 THEN sc.tix ELSE gen.windex
        dW == Increment(gen.w, tix)
        err2 == IF sc.push.err # 0 THEN sc.push.err ELSE err1
        vout == sc.push.vout
        xiout == sc.push.xiout
        Xout == sc.push.Xout
        kk == sc.push.kappa_k
        kd0 == sc.push.kappa_d0
        kd1 == sc.push.kappa_d1
        rejected == Rejected(kk, kd0, kd1)
        tindex == IF rejected THEN 0 ELSE tix
        dWopt == <<RMul(RMul(Q(9, 10), RAbs(dW[4])), RPowMinusThird(kd0)),
                   RMul(RMul(Q(9, 10), RAbs(dW[5])), RPowMinusThird(kd1))>>
        drift == RGt(kk, kd0) \/ RGt(kk, kd1)
        dti == IF RLt(RMul(Q(3, 2), hin[i]), StepDrift(hin[i], kk))
               THEN RMul(Q(3, 2), hin[i]) ELSE StepDrift(hin[i], kk)
        probe == IF drift
                 THEN ProbeDrift(gen.w, err2, 1, t, dti, tindex, dWopt, rnd[i], sc.tix)
                 ELSE ProbeDiff(gen.w, err2, 1, t, hin[i], rnd[i])
        step == ProbedStep(probe.ki, IF drift THEN dti ELSE hin[i])
        ln1 == [ln EXCEPT !.mu = GcMu(xiout, vout, ln.mass, Bnorm),
                          !.vpar = RMul(vout, xiout),
                          !.r = RSqrt(RAdd(RMul(Xout[1], Xout[1]), RMul(Xout[2], Xout[2]))),
                          !.phi = RAtan2(Xout[2], Xout[1]),
                          !.z = Xout[3]]
    IN  [m EXCEPT !.p[i] = ln1,
                  !.hout[i] = SignedStep(rejected, step),
                  !.err[i] = probe.err,
                  !.w[i] = probe.w,
                  !.loc[i] = [LocUnset EXCEPT
                      !.done = TRUE, !.vin = vin, !.xiin = xiin, !.cutoff = R(0),
                      !.Bnorm = Bnorm, !.gen_err = gen.err, !.tindex = tindex, !.dW = dW,
                      !.vout = vout, !.xiout = xiout, !.Xout = Xout,
                      !.kappa_k = kk, !.kappa_d0 = kd0, !.kappa_d1 = kd1,
                      !.rejected = rejected, !.ki = probe.ki,
                      !.channel = IF drift THEN "drift" ELSE "probe",
                      !.calls = <<ClogCall(vin, sc.plasma),
                                  EvalCall("mccc_coefs_gcadaptive", vin, xiin, sc.plasma,
                                           Clogab(vin))>>]]

(***************************************************************************)
(* libascot_B_field_rhotheta2rz (src/libascot.c): a Newton search along    *)
(* the ray of poloidal angle theta from the magnetic axis for the point    *)
(* where rho takes the queried value.  The field (B_field.c) answers per   *)
(* query point; the rays the model uses lie along the coordinate axes.     *)
(***************************************************************************)
\* the value of lib and h5 in a behaviour that does not call their function
NoCall == [called |-> FALSE]

QueryPoints == 0..(Neval - 1)

\* the fields the query points meet: does B_field_get_axis_rz succeed, the
\* value of rho on the axis, its profile along a ray, and the distance from
\* the axis beyond which B_field_eval_rho_drho fails
RhoFields ==
    { [axis_ok |-> TRUE, rho0 |-> R(0), kind |-> "linear", xmax |-> R(4)],
      [axis_ok |-> TRUE, rho0 |-> Q(1, 8), kind |-> "linear", xmax |-> R(4)],
      [axis_ok |-> TRUE, rho0 |-> R(0), kind |-> "linear", xmax |-> Q(1, 5)],
      [axis_ok |-> TRUE, rho0 |-> R(0), kind |-> "square", xmax |-> R(4)],
      [axis_ok |-> TRUE, rho0 |-> R(0), kind |-> "kinked", xmax |-> R(4)],
      [axis_ok |-> TRUE, rho0 |-> Q(1, 4), kind |-> "flat", xmax |-> R(4)],
      [axis_ok |-> TRUE, rho0 |-> R(0), kind |-> "linear", xmax |-> R(-1)],
      [axis_ok |-> FALSE, rho0 |-> R(0), kind |-> "linear", xmax |-> R(4)] }

\* B_field_eval_rho_drho(rhodrho, r, phi, z, Bdata): rho and its gradient at
\* (r, z), a point on a ray along a coordinate axis at distance x from the
\* magnetic axis; a failed call leaves rhodrho as it was
B_field_eval_rho_drho(f, r, z) ==
    LET dr == RSub(r, axis_r)
        dz == RSub(z, axis_z)
        x == RAdd(RAbs(dr), RAbs(dz))
        rho == CASE f.kind = "linear" -> RAdd(f.rho0, x)
                 [] f.kind = "square" -> RAdd(f.rho0, RMul(x, x))
                 [] f.kind = "kinked" -> IF RGt(x, Q(1, 20))
                                         THEN RAdd(Q(1, 2), RSub(x, Q(1, 20)))
                                         ELSE RMul(R(10), x)
                 [] OTHER -> f.rho0
        slope == CASE f.kind = "linear" -> R(1)
                   [] f.kind = "square" -> RMul(R(2), x)
                   [] f.kind = "kinked" -> IF RGt(x, Q(1, 20)) THEN R(1) ELSE R(10)
                   [] OTHER -> R(0)
    IN  IF ~IsFinite(x) \/ RGt(x, f.xmax)
        THEN [err |-> 1, rho |-> NaN, drho_dr |-> NaN, drho_dz |-> NaN]
        ELSE [err |-> 0, rho |-> rho,
              drho_dr |-> RMul(slope, R(ISign(dr[1]))),
              drho_dz |-> RMul(slope, R(ISign(dz[1])))]

\* what the iteration of one query point leaves: were r[j], z[j] written and
\* with what, how many passes of the Newton loop were begun, how it ended
PointOut(how, written, r, z, iters) ==
    [how |-> how, written |-> written, r |-> r, z |-> z, iters |-> iters]

\* an iterate is taken whatever rho it has
Converged_always(rhoq, rho, tol) == TRUE

\* fabs(rho[j] - rhodrho[0]) < tol
Converged(rhoq, rho, tol) == RLt(RAbs(RSub(rhoq, rho)), tol)

\* the point of the ray at distance x from the axis
RayPoint(x, costh, sinth) == <<RAdd(axis_r, RMul(x, costh)), RAdd(axis_z, RMul(x, sinth))>>

\* for(int i=0; i<maxiter; i++) of one query point, from pass i with step x;
\* ev is what B_field_eval_rho_drho answers at (rj, zj) in that pass
RECURSIVE Newton(_, _, _, _, _, _, _, _, _)
Newton(f, rhoq, costh, sinth, x, i, maxiter, tol, ev) ==
    IF i >= maxiter THEN PointOut("exhausted", FALSE, NaN, NaN, i)
    ELSE IF ev.err # 0 THEN PointOut("rho_failed", FALSE, NaN, NaN, i + 1)
    ELSE IF Converged(rhoq, ev.rho, tol)
    THEN PointOut("iterate", TRUE, RayPoint(x, costh, sinth)[1], RayPoint(x, costh, sinth)[2],
                  i + 1)
    ELSE
    LET back == RDiv(RSub(ev.rho, rhoq),
                     RAdd(RMul(costh, ev.drho_dr), RMul(sinth, ev.drho_dz)))
        x1 == RSub(x, back)
        x2 == IF RLt(x1, R(0)) THEN RDiv(RAdd(x1, back), R(2)) ELSE x1
        at == RayPoint(x2, costh, sinth)
    IN  Newton(f, rhoq, costh, sinth, x2, i + 1, maxiter, tol,
               B_field_eval_rho_drho(f, at[1], at[2]))

\* the body of for(int j=0; j<Neval; j++) for query point j
RhoTheta2rzPoint(a, j) ==
    LET f == a.fld[j]
        ev == B_field_eval_rho_drho(f, axis_r, axis_z)
        costh == RCos(a.theta[j])
        sinth == RSin(a.theta[j])
        at == RayPoint(Q(1, 10), costh, sinth)
    IN  IF ~f.axis_ok THEN PointOut("axis_failed", FALSE, NaN, NaN, 0)
        ELSE IF ev.err # 0 THEN PointOut("rho_failed", FALSE, NaN, NaN, 0)
        ELSE IF RGt(ev.rho, a.rho[j]) THEN PointOut("axis", TRUE, axis_r, axis_z, 0)
        ELSE Newton(f, a.rho[j], costh, sinth, Q(1, 10), 0, a.maxiter, a.tol,
                    B_field_eval_rho_drho(f, at[1], at[2]))

\* the iterations of the parallel for share nothing they write: point j
\* writes r[j] and z[j] only, its other variables are declared in the body
libascot_B_field_rhotheta2rz ==
    /\ pc = "call"
    /\ op = "rhotheta2rz"
    /\ LET out == [j \in QueryPoints |-> RhoTheta2rzPoint(lib.arg, j)]
       IN  lib' = [lib EXCEPT
                   !.out = out,
                   !.r = [j \in QueryPoints |-> IF out[j].written THEN out[j].r ELSE @[j]],
                   !.z = [j \in QueryPoints |-> IF out[j].written THEN out[j].z ELSE @[j]]]
    /\ pc' = "done"
    /\ UNCHANGED <<op, flags, nspec, p, pf, hin, hout, err, w, rnd, coef, loc, env, pre, h5>>

(***************************************************************************)
(* The evaluation functions of src/libascot.c.  Each declares a local      *)
(* sim_data sim, calls the *_init functions of some of its members and     *)
(* then, for every query point k, a chain of evaluators; a checked         *)
(* evaluator that returns nonzero ends the pass of the point (continue).   *)
(* A function is the sequence of calls before its loop (head) and the      *)
(* sequence of calls of one pass of the loop (body); the answers of the    *)
(* evaluators are inputs.                                                  *)
(***************************************************************************)
\* one call: the members of sim it initialises, the members it is handed,
\* whether its return value is tested, and the output arrays whose entries
\* of point k are assigned once it has returned zero
LibCall(ev, init, uses, checked, writes) ==
    [ev |-> ev, init |-> init, uses |-> uses, checked |-> checked, writes |-> writes]

\* the functions, in the order of the file; libascot_eval_sigmav hands
\* &sigmav[Nv*k + j] to asigma_eval_sigmav for j < Nv and ignores what it
\* returns
LibascotFunctions ==
    LET B_init == LibCall("B_field_init", {"B_data"}, {}, FALSE, {})
        E_init == LibCall("E_field_init", {"E_data"}, {}, FALSE, {})
        pls_init == LibCall("plasma_init", {"plasma_data"}, {}, FALSE, {})
        ntl_init == LibCall("neutral_init", {"neutral_data"}, {}, FALSE, {})
        bzr_init == LibCall("boozer_init", {"boozer_data"}, {}, FALSE, {})
        mhd_init == LibCall("mhd_init", {"mhd_data"}, {}, FALSE, {})
        psi == LibCall("B_field_eval_psi", {}, {"B_data"}, TRUE, {})
        rho == LibCall("B_field_eval_rho", {}, {"B_data"}, TRUE, {})
        bzr == LibCall("boozer_eval_psithetazeta", {}, {"B_data", "boozer_data"}, TRUE, {})
        inside == LibCall("isinside", {}, {}, TRUE, {})
        getter == [g \in {"plasma_get_n_species", "plasma_get_species_mass",
                          "plasma_get_species_charge", "plasma_get_species_anum",
                          "plasma_get_species_znum"} |->
                       LibCall(g, {}, {"plasma_data"}, FALSE, {})]
    IN  [libascot_B_field_eval_B_dB |->
            [head |-> <<B_init>>,
             body |-> <<LibCall("B_field_eval_B_dB", {}, {"B_data"}, TRUE,
                                {"BR", "Bphi", "Bz", "BR_dR", "BR_dphi", "BR_dz", "Bphi_dR",
                                 "Bphi_dphi", "Bphi_dz", "Bz_dR", "Bz_dphi", "Bz_dz"})>>],
         libascot_B_field_eval_rho |->
            [head |-> <<B_init>>,
             body |-> <<[psi EXCEPT !.writes = {"psi"}], [rho EXCEPT !.writes = {"rho"}]>>],
         libascot_B_field_get_axis |->
            [head |-> <<B_init>>,
             body |-> <<LibCall("B_field_get_axis_rz", {}, {"B_data"}, TRUE,
                                {"Raxis", "zaxis"})>>],
         libascot_E_field_eval_E |->
            [head |-> <<B_init, E_init>>,
             body |-> <<LibCall("E_field_eval_E", {}, {"E_data", "B_data"}, TRUE,
                                {"ER", "Ephi", "Ez"})>>],
         libascot_plasma_get_n_species |->
            [head |-> <<pls_init, getter["plasma_get_n_species"]>>, body |-> <<>>],
         libascot_plasma_get_species_mass_and_charge |->
            [head |-> <<pls_init, getter["plasma_get_n_species"],
                        getter["plasma_get_species_mass"],
                        getter["plasma_get_species_charge"],
                        getter["plasma_get_species_anum"],
                        getter["plasma_get_species_znum"]>>,
             body |-> <<>>],
         libascot_plasma_eval_background |->
            [head |-> <<B_init, pls_init, getter["plasma_get_n_species"]>>,
             body |-> <<psi, rho,
                        LibCall("plasma_eval_densandtemp", {}, {"plasma_data"}, TRUE,
                                {"dens", "temp"})>>],
         libascot_neutral_eval_density |->
            [head |-> <<ntl_init>>,
             body |-> <<psi, rho,
                        LibCall("neutral_eval_n0", {}, {"neutral_data"}, TRUE, {"dens"})>>],
         libascot_boozer_eval_psithetazeta |->
            [head |-> <<bzr_init>>,
             body |-> <<bzr, inside,
                        [rho EXCEPT !.writes =
                            {"psi", "theta", "zeta", "dpsidr", "dpsidphi", "dpsidz",
                             "dthetadr", "dthetadphi", "dthetadz", "dzetadr", "dzetadphi",
                             "dzetadz", "rho"}]>>],
         libascot_boozer_eval_fun |->
            [head |-> <<B_init, bzr_init>>,
             body |-> <<bzr, inside,
                        LibCall("B_field_eval_B_dB", {}, {"B_data"}, TRUE,
                                {"qprof", "jac", "jacB2"})>>],
         libascot_mhd_eval |->
            [head |-> <<bzr_init, mhd_init>>,
             body |-> <<LibCall("mhd_eval", {}, {"boozer_data", "mhd_data", "B_data"}, TRUE,
                                {"alpha", "dadr", "dadphi", "dadz", "dadt", "Phi", "dPhidr",
                                 "dPhidphi", "dPhidz", "dPhidt"})>>],
         libascot_mhd_eval_perturbation |->
            [head |-> <<B_init, bzr_init, mhd_init>>,
             body |-> <<LibCall("mhd_perturbations", {},
                                {"boozer_data", "mhd_data", "B_data"}, TRUE,
                                {"mhd_br", "mhd_bphi", "mhd_bz", "mhd_er", "mhd_ephi",
                                 "mhd_ez", "mhd_phi"})>>],
         libascot_eval_collcoefs |->
            [head |-> <<B_init, pls_init,
                        LibCall("mccc_eval_coefs", {}, {"plasma_data", "B_data"}, FALSE, {})>>,
             body |-> <<>>],
         libascot_eval_sigmav |->
            [head |-> <<B_init, pls_init, ntl_init, getter["plasma_get_species_znum"],
                        getter["plasma_get_species_anum"]>>,
             body |-> <<psi, rho,
                        LibCall("plasma_eval_densandtemp", {}, {"plasma_data"}, TRUE, {}),
                        LibCall("neutral_eval_t0", {}, {"neutral_data"}, TRUE, {})>>
                      \o [j \in 1..Nv |->
                             LibCall("asigma_eval_sigmav", {}, {"asigma_data"}, FALSE,
                                     {"sigmav"})]]]

\* one pass of for(int k = 0; k < Neval; k++): the calls made up to the first
\* tested one that returns nonzero, and the output arrays assigned at k
PointPass(body, ans) ==
    LET failing == {s \in DOMAIN body : body[s].checked /\ ~ans[s]}
        last == IF failing = {} THEN Len(body)
                ELSE CHOOSE s \in failing : \A u \in failing : s <= u
    IN  [calls |-> [s \in 1..last |->
                       [ev |-> body[s].ev, uses |-> body[s].uses,
                        ret |-> IF ans[s] THEN 0 ELSE 1]],
         written |-> UNION {body[s].writes : s \in {u \in 1..last : ans[u]}}]

\* a function of LibascotFunctions, called on Neval points
libascot_eval ==
    /\ pc = "call"
    /\ op = "libascot_eval"
    /\ lib' = [lib EXCEPT
               !.calls = LibascotFunctions[lib.fn].head,
               !.out = [k \in QueryPoints |->
                           PointPass(LibascotFunctions[lib.fn].body, lib.ans[k])]]
    /\ pc' = "done"
    /\ UNCHANGED <<op, flags, nspec, p, pf, hin, hout, err, w, rnd, coef, loc, env, pre, h5>>

(***************************************************************************)
(* hdf5_plasma_init_offload (src/hdf5io/hdf5_plasma.c).  The file is what  *)
(* hdf5_find_group and hdf5_read_* answer for the qid: which of the two    *)
(* plasma groups it holds, which of their datasets cannot be read and the  *)
(* number of ion species in nion; init_ret is what plasma_init_offload     *)
(* returns when it is called.                                              *)
(***************************************************************************)
\* the sets of datasets that cannot be read
Unreadable == { {}, {"nion"}, {"rho"}, {"rhomin"}, {"iondensity"} }

\* hdf5_plasma_read_1D: {return 1;} at the first hdf5_read_* that fails.
\* n_species = n_ions + 1 is assigned once nion and nrho are read (0: not
\* assigned); top is the highest index of charge[] and mass[] it writes,
\* i + 1 for i < n_ions after the electron at index 0
hdf5_plasma_read_1D(bad, n_ions) ==
    [ret |-> IF bad \cap {"nion", "nrho", "znum", "anum", "charge", "mass", "rho",
                          "etemperature", "edensity", "iontemperature", "iondensity"} # {}
             THEN 1 ELSE 0,
     n_species |-> IF bad \cap {"nion", "nrho"} # {} THEN 0 ELSE n_ions + 1,
     top |-> IF bad \cap {"nion", "nrho"} # {} THEN -1
             ELSE IF bad \cap {"znum", "anum", "charge"} # {} THEN 0 ELSE n_ions]

\* hdf5_plasma_read_1DS likewise, rhomin and rhomax being read before
\* n_species is assigned
hdf5_plasma_read_1DS(bad, n_ions) ==
    [ret |-> IF bad \cap {"nion", "nrho", "rhomin", "rhomax", "znum", "anum", "charge",
                          "mass", "etemperature", "edensity", "iontemperature",
                          "iondensity"} # {}
             THEN 1 ELSE 0,
     n_species |-> IF bad \cap {"nion", "nrho", "rhomin", "rhomax"} # {} THEN 0
                   ELSE n_ions + 1,
     top |-> IF bad \cap {"nion", "nrho", "rhomin", "rhomax"} # {} THEN -1
             ELSE IF bad \cap {"znum", "anum", "charge"} # {} THEN 0 ELSE n_ions]

\* the function with int err = 0 in place of int err = 1
hdf5_plasma_init_offload_err0 ==
    /\ pc = "call"
    /\ op = "hdf5_plasma_init_offload"
    /\ LET f == h5.file
           r1 == hdf5_plasma_read_1D(f.bad1D, f.nion)
           r2 == hdf5_plasma_read_1DS(f.bad1DS, f.nion)
           err1 == IF f.found1D THEN r1.ret ELSE 0
           type1 == IF f.found1D THEN "plasma_type_1D" ELSE h5.type
           err2 == IF f.found1DS THEN r2.ret ELSE err1
           type2 == IF f.found1DS THEN "plasma_type_1DS" ELSE type1
           reads == (IF f.found1D THEN <<[fn |-> "hdf5_plasma_read_1D"] @@ r1>> ELSE <<>>)
                    \o (IF f.found1DS THEN <<[fn |-> "hdf5_plasma_read_1DS"] @@ r2>>
                        ELSE <<>>)
       IN  h5' = [h5 EXCEPT
                  !.type = type2,
                  !.calls = IF err2 = 0
                            THEN reads \o <<[fn |-> "plasma_init_offload", ret |-> f.init_ret]>>
                            ELSE reads,
                  !.ret = IF err2 = 0 THEN f.init_ret ELSE err2]
    /\ pc' = "done"
    /\ UNCHANGED <<op, flags, nspec, p, pf, hin, hout, err, w, rnd, coef, loc, env, pre, lib>>

\* int hdf5_plasma_init_offload(f, offload_data, offload_array, qid)
hdf5_plasma_init_offload ==
    /\ pc = "call"
    /\ op = "hdf5_plasma_init_offload"
    /\ LET f == h5.file
           r1 == hdf5_plasma_read_1D(f.bad1D, f.nion)
           r2 == hdf5_plasma_read_1DS(f.bad1DS, f.nion)
           err1 == IF f.found1D THEN r1.ret ELSE 1
           type1 == IF f.found1D THEN "plasma_type_1D" ELSE h5.type
           err2 == IF f.found1DS THEN r2.ret ELSE err1
           type2 == IF f.found1DS THEN "plasma_type_1DS" ELSE type1
           reads == (IF f.found1D THEN <<[fn |-> "hdf5_plasma_read_1D"] @@ r1>> ELSE <<>>)
                    \o (IF f.found1DS THEN <<[fn |-> "hdf5_plasma_read_1DS"] @@ r2>>
                        ELSE <<>>)
       IN  h5' = [h5 EXCEPT
                  !.type = type2,
                  !.calls = IF err2 = 0
                            THEN reads \o <<[fn |-> "plasma_init_offload", ret |-> f.init_ret]>>
                            ELSE reads,
                  !.ret = IF err2 = 0 THEN f.init_ret ELSE err2]
    /\ pc' = "done"
    /\ UNCHANGED <<op, flags, nspec, p, pf, hin, hout, err, w, rnd, coef, loc, env, pre, lib>>

(***************************************************************************)
(* The functions of the package: one action each                           *)
(***************************************************************************)
\* for(i = 0; i < NSIMD; i++) of each function: the iterations run in order
RECURSIVE AdaptiveLoop(_, _)
AdaptiveLoop(m, i) == IF i >= NSIMD THEN m ELSE AdaptiveLoop(AdaptiveLane(m, i), i + 1)

RECURSIVE UpdateFoLoop(_, _)
UpdateFoLoop(m, i) == IF i >= NSIMD THEN m ELSE UpdateFoLoop(UpdateFoLane(m, i), i + 1)

RECURSIVE UpdateGcLoop(_, _)
UpdateGcLoop(m, i) == IF i >= NSIMD THEN m ELSE UpdateGcLoop(UpdateGcLane(m, i), i + 1)

RECURSIVE StepFoLoop(_, _)
StepFoLoop(m, i) == IF i >= NSIMD THEN m ELSE StepFoLoop(StepFoLane(m, i), i + 1)

RECURSIVE StepGcLoop(_, _)
StepGcLoop(m, i) == IF i >= NSIMD THEN m ELSE StepGcLoop(StepGcLane(m, i), i + 1)

RECURSIVE LegacyStepFoLoop(_, _)
LegacyStepFoLoop(m, i) == IF i >= NSIMD THEN m ELSE LegacyStepFoLoop(LegacyStepFoLane(m, i), i + 1)

RECURSIVE LegacyStepGcLoop(_, _)
LegacyStepGcLoop(m, i) == IF i >= NSIMD THEN m ELSE LegacyStepGcLoop(LegacyStepGcLane(m, i), i + 1)

RECURSIVE LegacyAdaptiveLoop(_, _)
LegacyAdaptiveLoop(m, i) == IF i >= NSIMD THEN m ELSE LegacyAdaptiveLoop(LegacyAdaptiveLane(m, i), i + 1)

\* the memory a call reads and writes
Here == [p |-> p, pf |-> pf, hout |-> hout, err |-> err, w |-> w, loc |-> loc, coef |-> coef]

Return(m) ==
    /\ pc' = "done"
    /\ p' = m.p
    /\ pf' = m.pf
    /\ hout' = m.hout
    /\ err' = m.err
    /\ w' = m.w
    /\ loc' = m.loc
    /\ coef' = m.coef
    /\ UNCHANGED <<op, flags, nspec, hin, rnd, env, pre, lib, h5>>

mccc_step_gc_adaptive ==
    /\ pc = "call"
    /\ op = "step_gc_adaptive"
    /\ Return(AdaptiveLoop(Here, 0))

mccc_update_fo ==
    /\ pc = "call"
    /\ op = "update_fo"
    /\ Return(UpdateFoLoop(Here, 0))

mccc_update_gc ==
    /\ pc = "call"
    /\ op = "update_gc"
    /\ Return(UpdateGcLoop(Here, 0))

mccc_step_fo_fixed ==
    /\ pc = "call"
    /\ op = "step_fo_fixed"
    /\ Return(StepFoLoop(Here, 0))

mccc_step_gc_fixed ==
    /\ pc = "call"
    /\ op = "step_gc_fixed"
    /\ Return(StepGcLoop(Here, 0))

legacy_mccc_step_fo_fixed ==
    /\ pc = "call"
    /\ op = "legacy_step_fo_fixed"
    /\ Return(LegacyStepFoLoop(Here, 0))

legacy_mccc_step_gc_fixed ==
    /\ pc = "call"
    /\ op = "legacy_step_gc_fixed"
    /\ Return(LegacyStepGcLoop(Here, 0))

legacy_mccc_step_gc_adaptive ==
    /\ pc = "call"
    /\ op = "legacy_step_gc_adaptive"
    /\ Return(LegacyAdaptiveLoop(Here, 0))


(***************************************************************************)
(* Arguments of a call                                                     *)
(***************************************************************************)
Flags(e, pi, g) == [noenergy |-> e, nopitch |-> pi, nogcdiff |-> g]

FlagsOff == Flags(FALSE, FALSE, FALSE)

FlagsGc == {FlagsOff, Flags(TRUE, TRUE, TRUE)}

CoefEmpty ==
    [clogab |-> [k \in CoefSlots |-> CoefNone], rest |-> [k \in CoefSlots |-> CoefNone],
     stray |-> FALSE]

\* one lane, the focus, takes its arguments from the full sets; the other
\* lanes are plain markers
Args(o, fl, ns, focus, run, gc, fo, wa, ra, sc) ==
    /\ op = o
    /\ pc = "call"
    /\ flags = fl
    /\ nspec = ns
    /\ p = [i \in Lanes |-> IF i = focus THEN gc[run[i]] ELSE GcPerp(run[i])]
    /\ pf = [i \in Lanes |-> IF i = focus THEN fo[run[i]] ELSE FoA(run[i])]
    /\ hin = [i \in Lanes |-> IF i = focus THEN wa[2] ELSE R(1)]
    /\ hout = [i \in Lanes |-> R(7)]
    /\ err = [i \in Lanes |-> 0]
    /\ w = [i \in Lanes |-> IF i = focus THEN wa[1] ELSE WFresh]
    /\ rnd = [i \in Lanes |-> IF i = focus THEN ra ELSE RandPlain]
    /\ coef = CoefEmpty
    /\ loc = [i \in Lanes |-> LocUnset]
    /\ env = [i \in Lanes |-> IF i = focus THEN sc ELSE ScPlain]
    /\ pre = [p |-> p, pf |-> pf, hout |-> hout, err |-> err, w |-> w, coef |-> coef]

\* the last one has v = 7/2 and pitch 5/7, above the magnetic axis
GcPresets ==
    { [b \in BOOLEAN |-> GcPerp(b)], [b \in BOOLEAN |-> GcPara(b)], [b \in BOOLEAN |-> GcRest(b)],
      [b \in BOOLEAN |-> GcLane(b, R(3), Q(5, 2), R(2), R(1), R(1), R(0), FieldUnit, Q(1, 2))] }

FoPresets == { [b \in BOOLEAN |-> FoA(b)], [b \in BOOLEAN |-> FoB(b)] }

FoPlain == [b \in BOOLEAN |-> FoA(b)]

GcPlain == [b \in BOOLEAN |-> GcPerp(b)]

RandStir == <<R(1), R(1), R(0), R(3), R(0)>>

\* arguments of the adaptive steps: <<markers, flags, <<record, hin>>, variates, answers>>;
\* the (record, step) pairs are those for which the square roots of the path
\* manager are exact
AdaptiveArgs(fls) ==
    ({GcPlain} \X {FlagsOff} \X {<<WFresh, R(1)>>} \X RandSet \X ScDecide)
    \cup (GcPresets \X fls \X {<<WFresh, R(1)>>} \X {RandStir} \X (ScOutcome \cup ScFailure))
    \cup ({GcPlain} \X {FlagsOff}
          \X { <<WFresh, R(1)>>, <<WFresh, R(4)>>, <<WAhead, R(2)>>, <<WAhead, R(4)>>,
               <<WFull, R(1)>>, <<WUninit, R(1)>> }
          \X RandSet \X ({ScPlain} \cup ScStale))

\* arguments of the fixed steps
FixedArgs(fls) ==
    GcPresets \X fls \X {<<WFresh, R(1)>>} \X {RandStir}
              \X ({ScPlain} \cup ScOutcome \cup ScFailure)

InitGc(o, args) ==
    \E focus \in Lanes, run \in [Lanes -> BOOLEAN], a \in args :
        Args(o, a[2], MAX_SPECIES, focus, run, a[1], FoPlain, a[3], a[4], a[5])

InitFo(o, fls) ==
    \E focus \in Lanes, run \in [Lanes -> BOOLEAN], fo \in FoPresets, fl \in fls,
       sc \in {ScPlain} \cup ScOutcome \cup ScFailure :
        Args(o, fl, MAX_SPECIES, focus, run, GcPlain, fo, <<WFresh, R(1)>>, RandStir, sc)

\* pdata->n_species is n_ions + 1 of the input file, which no reader compares
\* with MAX_SPECIES
InitUpdate(o) ==
    \E focus \in Lanes, run \in [Lanes -> BOOLEAN], gc \in GcPresets, fo \in FoPresets,
       ns \in 1..(MAX_SPECIES + 1) :
        Args(o, FlagsOff, ns, focus, run, gc, fo, <<WFresh, R(1)>>, RandStir, ScPlain)

\* a call that is none of the collision package: its markers are at rest
NoMarkers(o) ==
    Args(o, FlagsOff, MAX_SPECIES, 0, [i \in Lanes |-> FALSE], GcPlain, FoPlain,
         <<WFresh, R(1)>>, RandPlain, ScPlain)

\* the arguments of libascot_B_field_rhotheta2rz: q for the point in focus
InitLib ==
    \E focus \in QueryPoints, f \in RhoFields, g \in RhoFields,
       q \in [rho : {Q(1, 16), Q(1, 4), Q(1, 2)}, theta : {R(0), R(1), R(2)},
              maxiter : {0, 1, 2, 3}, tol : {Q(1, 100), Q(1, 5)}] :
        /\ NoMarkers("rhotheta2rz")
        /\ g.kind = "linear" /\ g.rho0 = R(0) /\ g.xmax = R(4)
        /\ lib = [arg |-> [rho |-> [j \in QueryPoints |-> IF j = focus THEN q.rho ELSE Q(1, 2)],
                          theta |-> [j \in QueryPoints |-> IF j = focus THEN q.theta ELSE R(1)],
                          fld |-> [j \in QueryPoints |-> IF j = focus THEN f ELSE g],
                          maxiter |-> q.maxiter, tol |-> q.tol,
                          r |-> [j \in QueryPoints |-> R(7)],
                          z |-> [j \in QueryPoints |-> R(7)]],
                  out |-> [j \in QueryPoints |-> PointOut("unvisited", FALSE, NaN, NaN, 0)],
                  r |-> [j \in QueryPoints |-> R(7)],
                  z |-> [j \in QueryPoints |-> R(7)]]
        /\ h5 = NoCall

\* a call of one of the evaluation functions: the evaluators answer the
\* point in focus in every way, the other points without failure
InitLibEval ==
    \E fn \in DOMAIN LibascotFunctions, focus \in QueryPoints :
        \E a \in [DOMAIN LibascotFunctions[fn].body -> BOOLEAN] :
            /\ NoMarkers("libascot_eval")
            /\ lib = [fn |-> fn,
                      ans |-> [k \in QueryPoints |->
                                  IF k = focus THEN a
                                  ELSE [s \in DOMAIN LibascotFunctions[fn].body |-> TRUE]],
                      calls |-> <<>>,
                      out |-> [k \in QueryPoints |-> [calls |-> <<>>, written |-> {}]]]
            /\ h5 = NoCall

InitH5 ==
    \E f1 \in BOOLEAN, f2 \in BOOLEAN, b1 \in Unreadable, b2 \in Unreadable,
       ir \in {0, 1}, ty \in {"plasma_type_1D", "plasma_type_1DS"},
       ni \in {1, MAX_SPECIES - 1, MAX_SPECIES} :
        /\ NoMarkers("hdf5_plasma_init_offload")
        /\ lib = NoCall
        /\ h5 = [file |-> [found1D |-> f1, bad1D |-> b1, found1DS |-> f2, bad1DS |-> b2,
                          init_ret |-> ir, nion |-> ni],
                 type |-> ty, calls |-> <<>>, ret |-> -1]

Init ==
    \/ /\ lib = NoCall
       /\ h5 = NoCall
       /\ \/ InitGc("step_gc_adaptive", AdaptiveArgs(FlagsGc))
          \/ InitGc("step_gc_fixed", FixedArgs(FlagsGc))
          \/ InitFo("step_fo_fixed", {FlagsOff, Flags(TRUE, FALSE, FALSE), Flags(FALSE, TRUE, FALSE)})
          \/ InitUpdate("update_fo")
          \/ InitUpdate("update_gc")
          \/ InitGc("legacy_step_gc_adaptive", AdaptiveArgs({FlagsOff}))
          \/ InitGc("legacy_step_gc_fixed", FixedArgs({FlagsOff}))
          \/ InitFo("legacy_step_fo_fixed", {FlagsOff})
    \/ InitLib
    \/ InitLibEval
    \/ InitH5

Next ==
    \/ mccc_step_gc_adaptive
    \/ mccc_step_gc_fixed
    \/ mccc_step_fo_fixed
    \/ mccc_update_fo
    \/ mccc_update_gc
    \/ legacy_mccc_step_gc_adaptive
    \/ legacy_mccc_step_gc_fixed
    \/ legacy_mccc_step_fo_fixed
    \/ libascot_B_field_rhotheta2rz
    \/ libascot_eval
    \/ hdf5_plasma_init_offload

Spec == Init /\ [][Next]_vars

(***************************************************************************)
(* The Wiener path manager driven call by call: lane 0 holds the path, a   *)
(* behaviour is a sequence of extend and reset calls on it.  pre.w is the  *)
(* record before the last call, hin[0] the time asked for, rnd[0] the      *)
(* variates handed in, err[0] the code and loc[0].tindex the index the     *)
(* call returned.                                                          *)
(***************************************************************************)
\* reset: everything but the checkpoint, record 0, is discarded
mccc_wiener_reset_latest(wr) ==
    IF ~wr.init THEN wr
    ELSE WienerRec(TRUE, 1,
                   [k \in Slots |-> IF k = 0 THEN wr.time[wr.n - 1] ELSE R(0)],
                   [k \in Slots |-> IF k = 0 THEN wr.wiener[wr.n - 1] ELSE Zero5])

mccc_wiener_reset(wr) ==
    IF ~wr.init THEN wr
    ELSE WienerRec(TRUE, 1,
                   [k \in Slots |-> IF k = 0 THEN wr.time[0] ELSE R(0)],
                   [k \in Slots |-> IF k = 0 THEN wr.wiener[0] ELSE Zero5])

\* the square root the extend at t takes is one of a square
ExactAt(wr, t) ==
    IF ~wr.init \/ wr.n >= MCCC_NSLOTS \/ (\E k \in Used(wr) : wr.time[k] = t) THEN TRUE
    ELSE LET lo == RSub(t, wr.time[Below(wr, t)])
             rad == IF \A k \in Used(wr) : RLt(wr.time[k], t) THEN lo
                    ELSE LET hi == RSub(wr.time[Above(wr, t)], t)
                         IN  RDiv(RMul(lo, hi), RAdd(lo, hi))
         IN  IsFinite(rad) /\ rad[1] >= 0 /\ IsSquare(rad[1]) /\ IsSquare(rad[2])

InitWiener ==
    \E start \in {WFresh, WAhead, WFull, WUninit} :
        /\ op = "wiener"
        /\ pc = "path"
        /\ flags = FlagsOff
        /\ nspec = MAX_SPECIES
        /\ p = [i \in Lanes |-> GcPerp(FALSE)]
        /\ pf = [i \in Lanes |-> FoA(FALSE)]
        /\ hin = [i \in Lanes |-> R(0)]
        /\ hout = [i \in Lanes |-> R(0)]
        /\ err = [i \in Lanes |-> 0]
        /\ w = [i \in Lanes |-> IF i = 0 THEN start ELSE WUninit]
        /\ rnd = [i \in Lanes |-> RandPlain]
        /\ coef = CoefEmpty
        /\ loc = [i \in Lanes |-> LocUnset]
        /\ env = [i \in Lanes |-> ScPlain]
        /\ pre = [p |-> p, pf |-> pf, hout |-> hout, err |-> err, w |-> w, coef |-> coef]
        /\ lib = NoCall
        /\ h5 = NoCall

\* mccc_wiener_generate(w, t, &windex, rand5, &err) on the path, t being
\* later than the checkpoint
wiener_extend ==
    /\ op = "wiener"
    /\ \E t \in {R(1), R(2), R(4), R(5), R(8)},
          rand5 \in {RandPlain, RandStir, <<R(0), R(0), R(0), R(0), R(0)>>} :
        /\ w[0].init => RGt(t, w[0].time[0])
        /\ ExactAt(w[0], t)
        /\ LET gen == mccc_wiener_generate(w[0], t, rand5)
           IN  /\ w' = [w EXCEPT ![0] = gen.w]
               /\ err' = [err EXCEPT ![0] = gen.err]
               /\ loc' = [loc EXCEPT ![0].tindex = gen.windex]
        /\ hin' = [hin EXCEPT ![0] = t]
        /\ rnd' = [rnd EXCEPT ![0] = rand5]
    /\ pre' = [pre EXCEPT !.w = w]
    /\ pc' = IF pc = "reset" THEN "reset_extended" ELSE "extended"
    /\ UNCHANGED <<op, flags, nspec, p, pf, hout, coef, env, lib, h5>>

\* reset of the path
wiener_reset ==
    /\ op = "wiener"
    /\ w' = [w EXCEPT ![0] = mccc_wiener_reset(w[0])]
    /\ pre' = [pre EXCEPT !.w = w]
    /\ pc' = "reset"
    /\ UNCHANGED <<op, flags, nspec, p, pf, hin, hout, err, rnd, coef, loc, env, lib, h5>>

NextWiener ==
    \/ wiener_extend
    \/ wiener_reset

SpecWiener == InitWiener /\ [][NextWiener]_vars

(***************************************************************************)
(* Properties of the returned state                                        *)
(***************************************************************************)
Returned == pc = "done"

AdaptiveOps == {"step_gc_adaptive", "legacy_step_gc_adaptive"}

SimulateStepOps == {"step_fo_fixed", "step_gc_fixed", "step_gc_adaptive"}

FoOps == {"update_fo", "step_fo_fixed", "legacy_step_fo_fixed"}

StepOps == SimulateStepOps \cup {"legacy_step_fo_fixed", "legacy_step_gc_fixed",
                                 "legacy_step_gc_adaptive"}

\* the lane was running when the function was called
WasRunning(i) == IF op \in FoOps THEN pre.pf[i].running ELSE pre.p[i].running

\* the error code the push of lane i reported
PushErr(i) == IF op \in FoOps THEN env[i].pushfo.err ELSE env[i].push.err

AnyAboveOne(k) == RGt(k.kappa_k, R(1)) \/ RGt(k.kappa_d0, R(1)) \/ RGt(k.kappa_d1, R(1))

FiniteRatios(k) == IsFinite(k.kappa_k) /\ IsFinite(k.kappa_d0) /\ IsFinite(k.kappa_d1)

\* C1: in mccc_step_gc_adaptive a running lane is rejected if and only if one
\* of the three error ratios returned by the push is strictly greater than 1;
\* a lane whose ratios are all <= 1, exactly 1 included, is accepted.
C1_RejectedIffARatioExceedsOne ==
    \A i \in Lanes :
        (Returned /\ op \in AdaptiveOps /\ WasRunning(i)) =>
            /\ loc[i].rejected <=> AnyAboveOne(env[i].push)
            /\ AnyAboveOne(env[i].push) => (loc[i].tindex = 0 /\ ~RGt(hout[i], R(0)))
            /\ ~AnyAboveOne(env[i].push) => ~RLt(hout[i], R(0))

\* a lane with a ratio of exactly 1 and none above was accepted
C1_Witness ==
    \E i \in Lanes :
        /\ Returned /\ op = "step_gc_adaptive" /\ WasRunning(i)
        /\ env[i].push.kappa_d1 = R(1) /\ ~AnyAboveOne(env[i].push)
        /\ ~loc[i].rejected /\ RGt(hout[i], R(0))

\* C2: for a running lane with hin > 0 the sign of hout encodes the decision
\* of mccc_step_gc_adaptive: strictly negative when rejected, strictly
\* positive when accepted, whatever ratios and increments the push delivered.
C2_SignEncodesDecision ==
    \A i \in Lanes :
        (/\ Returned /\ op = "step_gc_adaptive" /\ WasRunning(i)
         /\ RGt(hin[i], R(0)) /\ err[i] = 0 /\ FiniteRatios(env[i].push)) =>
            IF loc[i].rejected THEN RLt(hout[i], R(0)) ELSE RGt(hout[i], R(0))

\* C3: rejection monotonicity: if an error ratio of a running lane is > 1,
\* the proposed step is strictly smaller in magnitude than the input step.
C3_RejectionShrinksStep ==
    \A i \in Lanes :
        (Returned /\ op \in AdaptiveOps /\ WasRunning(i) /\ AnyAboveOne(env[i].push)) =>
            RLt(RAbs(hout[i]), hin[i])

\* C4: mccc_step_gc_adaptive writes the push result (mu, vpar, r, phi, z, pol,
\* cached field, rho) into every running lane whether the step is accepted or
\* rejected; a rejected step is not rolled back.
C4_PushAppliedWhateverTheDecision ==
    \A i \in Lanes :
        (Returned /\ op = "step_gc_adaptive" /\ WasRunning(i)) =>
            LET was == pre.p[i]
                now == p[i]
                Bn == math_normc(was.fld.B_r, was.fld.B_phi, was.fld.B_z)
                vout == IF flags.noenergy THEN loc[i].vin ELSE env[i].push.vout
                xiout == IF flags.nopitch THEN loc[i].xiin ELSE env[i].push.xiout
                Xout == IF flags.nogcdiff THEN GcXin(was) ELSE env[i].push.Xout
            IN  /\ RMul(now.mu, RMul(R(2), Bn))
                     = RMul(RMul(RSub(R(1), RMul(xiout, xiout)), was.mass), RMul(vout, vout))
                /\ now.vpar = RMul(vout, xiout)
                /\ RMul(now.r, now.r) = RAdd(RMul(Xout[1], Xout[1]), RMul(Xout[2], Xout[2]))
                /\ ~RLt(now.r, R(0))
                /\ now.z = Xout[3]
                /\ now.pol = PolAfter(was.pol, was.r, was.z, now.r, now.z)
                /\ now.phi = PhiAfter(was.phi, Xout)
                /\ now.fld = env[i].field.val
                /\ now.rho = env[i].rho.val

\* a rejected lane holds the pushed state, which differs from the one before
C4_Witness ==
    \E i \in Lanes :
        /\ Returned /\ op = "step_gc_adaptive" /\ WasRunning(i)
        /\ loc[i].rejected /\ RLt(hout[i], R(0))
        /\ flags = FlagsOff /\ env[i].push.err = 0
        /\ p[i].vpar = RMul(env[i].push.vout, env[i].push.xiout)
        /\ p[i].vpar # pre.p[i].vpar /\ p[i].mu # pre.p[i].mu /\ p[i].r # pre.p[i].r

\* the coefficient slots of lane i
LaneSlots(i) == (i * MAX_SPECIES)..(i * MAX_SPECIES + MAX_SPECIES - 1)

\* C5: mccc_update_fo, mccc_update_gc, mccc_step_fo_fixed, mccc_step_gc_fixed
\* and mccc_step_gc_adaptive leave a lane that is not running as it was: its
\* particle fields, its coefficient slots, hout, err and its Wiener record.
C5_InactiveLanesUntouched ==
    \A i \in Lanes :
        (Returned /\ ~WasRunning(i)) =>
            /\ p[i] = pre.p[i]
            /\ pf[i] = pre.pf[i]
            /\ hout[i] = pre.hout[i]
            /\ err[i] = pre.err[i]
            /\ w[i] = pre.w[i]
            /\ \A k \in LaneSlots(i) :
                   coef.clogab[k] = pre.coef.clogab[k] /\ coef.rest[k] = pre.coef.rest[k]

\* the loop body of the function that was called
LaneBody(m, i) ==
    CASE op = "step_gc_adaptive" -> AdaptiveLane(m, i)
      [] op = "step_gc_fixed" -> StepGcLane(m, i)
      [] op = "step_fo_fixed" -> StepFoLane(m, i)
      [] op = "update_fo" -> UpdateFoLane(m, i)
      [] op = "update_gc" -> UpdateGcLane(m, i)
      [] op = "legacy_step_gc_adaptive" -> LegacyAdaptiveLane(m, i)
      [] op = "legacy_step_gc_fixed" -> LegacyStepGcLane(m, i)
      [] op = "legacy_step_fo_fixed" -> LegacyStepFoLane(m, i)

\* the memory as it was when the function was called
Before ==
    [p |-> pre.p, pf |-> pre.pf, hout |-> pre.hout, err |-> pre.err, w |-> pre.w,
     loc |-> [k \in Lanes |-> LocUnset], coef |-> pre.coef]

\* C6: in every step function an error raised while processing lane i is
\* stored in err[i] only: err[j] on return is what the iteration of lane j
\* itself leaves there, and every running lane is processed.
C6_ErrorStaysInItsLane ==
    \A j \in Lanes :
        (Returned /\ op \in StepOps) =>
            /\ err[j] = LaneBody(Before, j).err[j]
            /\ WasRunning(j) => loc[j].done

\* C7: when mccc_wiener_generate fails for a running lane of
\* mccc_step_gc_adaptive, the step of the lane is aborted: the push is not
\* applied and err[i] still holds the code of the failure on return.
C7_PathFailureAbortsStep ==
    \A i \in Lanes :
        (Returned /\ op = "step_gc_adaptive" /\ WasRunning(i) /\ loc[i].gen_err # 0) =>
            (p[i] = pre.p[i] /\ err[i] = loc[i].gen_err)

\* C8: when the push reports MCCC_PUSH_ISNAN for a running lane, every
\* particle field of the lane equals its value before the call.
C8_NumericalErrorLeavesState ==
    \A i \in Lanes :
        (/\ Returned /\ op \in SimulateStepOps /\ WasRunning(i)
         /\ PushErr(i) = MCCC_PUSH_ISNAN) =>
            (p[i] = pre.p[i] /\ pf[i] = pre.pf[i])

\* C9: when the plasma evaluator or a field evaluator fails for a running lane
\* during a guiding-center step, the step of the lane is aborted: nothing is
\* written into the lane and err[i] reports the failure.
C9_EvaluatorFailureAbortsStep ==
    \A i \in Lanes :
        (/\ Returned /\ op \in {"step_gc_fixed", "step_gc_adaptive"} /\ WasRunning(i)
         /\ (~env[i].plasma.ok \/ ~env[i].field.ok \/ ~env[i].rho.ok)) =>
            (p[i] = pre.p[i] /\ err[i] # 0)

\* the drift/speed ratio dominates
DriftDominates(k) == RGe(k.kappa_k, k.kappa_d0) /\ RGe(k.kappa_k, k.kappa_d1)

\* the first diffusion ratio dominates
FirstDiffusionDominates(k) ==
    ~DriftDominates(k) /\ RGe(k.kappa_d0, k.kappa_k) /\ RGe(k.kappa_d0, k.kappa_d1)

DominantDiffusionRatio(k) == IF FirstDiffusionDominates(k) THEN k.kappa_d0 ELSE k.kappa_d1

DominantIncrement(k, dW) == IF FirstDiffusionDominates(k) THEN dW[4] ELSE dW[5]

Cube(a) == RMul(a, RMul(a, a))

\* |hout| / (0.9*|dW|)^2 for the dominant diffusion channel of lane i
StepPerIncrement(i) ==
    RDiv(RAbs(hout[i]), RPow2(RMul(Q(9, 10), DominantIncrement(env[i].push, loc[i].dW))))

\* C10 as stated: when kappa_k dominates |hout| = 0.8*hin/sqrt(kappa_k);
\* otherwise |hout| scales with the dominant diffusion ratio as ratio^(-2),
\* |hout| / (0.9*|dW|)^2 = ratio^(-2), (0.9*|dW|)^2 being its value at ratio 1.
C10_InverseSquareScaling ==
    \A i \in Lanes :
        (/\ Returned /\ op = "step_gc_adaptive" /\ WasRunning(i)
         /\ FiniteRatios(env[i].push) /\ RGt(env[i].push.kappa_k, R(0))) =>
            LET k == env[i].push
            IN  IF DriftDominates(k)
                THEN RMul(RPow2(hout[i]), k.kappa_k) = RPow2(RMul(Q(8, 10), hin[i]))
                ELSE IF DominantIncrement(k, loc[i].dW) = R(0) THEN hout[i] = R(0)
                ELSE StepPerIncrement(i) = RDiv(R(1), RPow2(DominantDiffusionRatio(k)))

\* C10 amended: when kappa_k dominates |hout| = 0.8*hin/sqrt(kappa_k);
\* otherwise |hout| = (0.9*|dW|*ratio^(-1/3))^2 for the dominant diffusion
\* channel: it scales as ratio^(-2/3), (|hout| / (0.9*|dW|)^2)^3 = ratio^(-2).
C10_TwoThirdsScaling ==
    \A i \in Lanes :
        (/\ Returned /\ op = "step_gc_adaptive" /\ WasRunning(i)
         /\ FiniteRatios(env[i].push) /\ RGt(env[i].push.kappa_k, R(0))) =>
            LET k == env[i].push
            IN  IF DriftDominates(k)
                THEN RMul(RPow2(hout[i]), k.kappa_k) = RPow2(RMul(Q(8, 10), hin[i]))
                ELSE IF DominantIncrement(k, loc[i].dW) = R(0) THEN hout[i] = R(0)
                ELSE Cube(StepPerIncrement(i)) = RDiv(R(1), RPow2(DominantDiffusionRatio(k)))

\* a diffusion ratio other than 1 dominates and the increment of its channel
\* is not zero
C10_Witness ==
    \E i \in Lanes :
        /\ Returned /\ op = "step_gc_adaptive" /\ WasRunning(i)
        /\ FiniteRatios(env[i].push) /\ RGt(env[i].push.kappa_k, R(0))
        /\ ~DriftDominates(env[i].push)
        /\ DominantDiffusionRatio(env[i].push) = Pow6(Q(3, 2))
        /\ DominantIncrement(env[i].push, loc[i].dW) # R(0)
        /\ IsFinite(hout[i]) /\ hout[i] # R(0)

GcStepOps == StepOps \ FoOps

\* C12: in the guiding-center step functions the cutoff handed to the push
\* is strictly positive, and for a lane whose pre-update speed vin is zero or
\* not above the cutoff no quotient with vin as divisor is formed: the pitch
\* xiin handed on is not vpar/vin.
C12_DivisionsByVinGuarded ==
    \A i \in Lanes :
        (Returned /\ op \in GcStepOps /\ WasRunning(i)) =>
            /\ RGt(loc[i].cutoff, R(0))
            /\ (loc[i].vin = R(0) \/ ~RGt(loc[i].vin, loc[i].cutoff)) =>
                   loc[i].xiin # RDiv(pre.p[i].vpar, loc[i].vin)

\* the memory at the call with every lane other than i replaced: not
\* running, a record that was never initialised, err and hout cleared
Alone(i) ==
    [Before EXCEPT
        !.p = [j \in Lanes |-> IF j = i THEN pre.p[j] ELSE GcPlain[FALSE]],
        !.pf = [j \in Lanes |-> IF j = i THEN pre.pf[j] ELSE FoPlain[FALSE]],
        !.w = [j \in Lanes |-> IF j = i THEN pre.w[j] ELSE WUninit],
        !.err = [j \in Lanes |-> IF j = i THEN pre.err[j] ELSE 0],
        !.hout = [j \in Lanes |-> IF j = i THEN pre.hout[j] ELSE R(0)]]

\* C13: what a step function leaves for lane i (its particle fields, hout[i],
\* err[i], its Wiener record w[i]) is what the iteration of lane i alone
\* makes of lane i's own inputs: it is the same when the fields, the running
\* flag and the record of every other lane are replaced.
C13_LaneResultIsItsOwn ==
    \A i \in Lanes :
        (Returned /\ op \in StepOps) =>
            LET own == LaneBody(Alone(i), i)
            IN  /\ p[i] = own.p[i]
                /\ pf[i] = own.pf[i]
                /\ hout[i] = own.hout[i]
                /\ err[i] = own.err[i]
                /\ w[i] = own.w[i]

\* the speed of lane i relative to the plasma, as the function called forms it
RelativeSpeed(i) ==
    IF op \in FoOps THEN FoSpeed(pre.pf[i])
    ELSE IF op = "update_gc" THEN loc[i].va
    ELSE loc[i].vin

Evaluators == {"mccc_coefs_fo", "mccc_coefs_gcfixed", "mccc_coefs_gcadaptive"}

\* C14: in every update and step function, for each running lane there is
\* exactly one mccc_coefs_clog call, made with the lane's relative speed and
\* the densities and temperatures of the lane, it comes before the one call
\* of the coefficient evaluator, and the evaluator is handed the clogab array
\* that call filled and the same speed, densities and temperatures; a lane
\* that is not running makes neither call.
C14_ClogOnceBeforeEvaluator ==
    \A i \in Lanes :
        Returned =>
            LET cs == loc[i].calls
            IN  IF ~WasRunning(i) THEN cs = <<>>
                ELSE /\ Len(cs) = 2
                     /\ cs[1].fn = "mccc_coefs_clog"
                     /\ cs[2].fn \in Evaluators
                     /\ cs[1].v = RelativeSpeed(i)
                     /\ cs[1].denstemp = env[i].plasma
                     /\ cs[2].clogab = cs[1].clogab
                     /\ cs[2].v = cs[1].v
                     /\ cs[2].denstemp = cs[1].denstemp

\* a running lane with a finite speed and two plasma species made both calls
C14_Witness ==
    \E i \in Lanes :
        /\ Returned /\ WasRunning(i) /\ nspec = 2
        /\ Len(loc[i].calls) = 2
        /\ IsFinite(loc[i].calls[2].v) /\ RGt(loc[i].calls[2].v, R(0))
        /\ loc[i].calls[2].clogab[1].kind = "clog"

\* the number of mccc_wiener_generate calls made for lane i: one for the
\* step, and in the older function one per probe of the next step
Extends(i) ==
    IF op = "step_gc_adaptive" THEN 1
    ELSE 1 + (IF loc[i].ki > 3 THEN 3 ELSE loc[i].ki)

Accepted(i) == RGt(hout[i], R(0))

RejectedOutcome(i) == RLt(hout[i], R(0))

Failed(i) == err[i] # 0

\* C15: mccc_step_gc_adaptive returns, and each running lane (called with
\* err[i] = 0 and hin[i] > 0) ends in exactly one of accepted (hout > 0),
\* rejected (hout < 0) or failed (err[i] # 0), after no more than 6 extend
\* calls on its path.
C15_OneOutcomeAfterBoundedExtends ==
    \A i \in Lanes :
        (/\ Returned /\ op \in AdaptiveOps /\ WasRunning(i)
         /\ pre.err[i] = 0 /\ RGt(hin[i], R(0))) =>
            /\ loc[i].done
            /\ Extends(i) <= 6
            /\ \/ Accepted(i) /\ ~RejectedOutcome(i) /\ ~Failed(i)
               \/ ~Accepted(i) /\ RejectedOutcome(i) /\ ~Failed(i)
               \/ ~Accepted(i) /\ ~RejectedOutcome(i) /\ Failed(i)

(***************************************************************************)
(* Properties of the Wiener path                                           *)
(***************************************************************************)
JustExtended == op = "wiener" /\ pc \in {"extended", "reset_extended"}

\* the value the path holds for time t
ValueAt(wr, t) == wr.wiener[CHOOSE k \in Used(wr) : wr.time[k] = t]

\* the extend asked for a time strictly between two stored samples
Inserted ==
    /\ JustExtended /\ err[0] = 0 /\ w[0].n = pre.w[0].n + 1
    /\ \E k \in Used(pre.w[0]) : RGt(pre.w[0].time[k], hin[0])

\* C16: an extend keeps every sample that was stored before it, its time and
\* its five values, and adds one record at most; after an insertion at t2
\* between the stored neighbours t1 < t2 < t3, value(t3) - value(t1) is what
\* it was and is (value(t2) - value(t1)) + (value(t3) - value(t2)).
C16_StoredSamplesImmutable ==
    JustExtended =>
        /\ \A k \in Used(pre.w[0]) :
               w[0].time[k] = pre.w[0].time[k] /\ w[0].wiener[k] = pre.w[0].wiener[k]
        /\ w[0].n \in {pre.w[0].n, pre.w[0].n + 1}
        /\ Inserted =>
               LET t1 == pre.w[0].time[Below(pre.w[0], hin[0])]
                   t3 == pre.w[0].time[Above(pre.w[0], hin[0])]
                   v1 == ValueAt(w[0], t1)
                   v2 == ValueAt(w[0], hin[0])
                   v3 == ValueAt(w[0], t3)
               IN  /\ VecSub(v3, v1) = VecSub(ValueAt(pre.w[0], t3), ValueAt(pre.w[0], t1))
                   /\ VecSub(v3, v1) = VecAdd(VecSub(v2, v1), VecSub(v3, v2))

\* a sample was inserted between two stored ones with variates that are not
\* all zero, and it lies off the straight line between its neighbours
C16_Witness ==
    /\ Inserted
    /\ rnd[0] # Zero5
    /\ LET t1 == pre.w[0].time[Below(pre.w[0], hin[0])]
           t3 == pre.w[0].time[Above(pre.w[0], hin[0])]
       IN  /\ RLt(t1, hin[0]) /\ RLt(hin[0], t3)
           /\ ValueAt(w[0], hin[0]) # ValueAt(w[0], t1)
           /\ ValueAt(w[0], hin[0]) # ValueAt(w[0], t3)

\* C17: reset leaves the path with exactly one stored sample, the earliest
\* one stored before the reset (the checkpoint, record 0), its time and value
\* unchanged; an extend issued after the reset is measured from that sample:
\* its value is the retained value plus sqrt(t - time[0]) times the variates.
C17_ResetKeepsCheckpoint ==
    /\ (op = "wiener" /\ pc = "reset" /\ pre.w[0].init) =>
           /\ w[0].n = 1
           /\ w[0].time[0] = pre.w[0].time[0]
           /\ w[0].wiener[0] = pre.w[0].wiener[0]
           /\ \A k \in Used(pre.w[0]) : ~RLt(pre.w[0].time[k], w[0].time[0])
    /\ (op = "wiener" /\ pc = "reset_extended" /\ pre.w[0].init) =>
           /\ err[0] = 0
           /\ w[0].n = 2
           /\ loc[0].tindex = 1
           /\ w[0].time[1] = hin[0]
           /\ w[0].wiener[0] = pre.w[0].wiener[0]
           /\ w[0].wiener[1] =
                  VecAdd(pre.w[0].wiener[0],
                         VecScale(RSqrt(RSub(hin[0], pre.w[0].time[0])), rnd[0]))

\* a path was reset and then extended with variates that are not all zero
C17_Witness ==
    /\ op = "wiener" /\ pc = "reset_extended" /\ pre.w[0].init
    /\ w[0].n = 2 /\ rnd[0] # Zero5
    /\ w[0].wiener[1] # w[0].wiener[0]

\* the extend asked for a time the path does not hold
AskedNew == \A k \in Used(pre.w[0]) : pre.w[0].time[k] # hin[0]

\* C18: the number of samples of a path never exceeds the capacity
\* MCCC_NSLOTS; an extend that needs a slot beyond it stores nothing and
\* signals MCCC_WIENER_EXCEEDEDCAPACITY, and an extend on a record that was
\* never initialised signals MCCC_WIENER_NOASSOCIATEDPROCESS.
C18_CapacityNeverExceeded ==
    op = "wiener" =>
        /\ w[0].n <= MCCC_NSLOTS
        /\ (JustExtended /\ pre.w[0].init /\ pre.w[0].n = MCCC_NSLOTS /\ AskedNew) =>
               (err[0] = MCCC_WIENER_EXCEEDEDCAPACITY /\ w[0] = pre.w[0])
        /\ (JustExtended /\ ~pre.w[0].init) =>
               (err[0] = MCCC_WIENER_NOASSOCIATEDPROCESS /\ w[0] = pre.w[0])
        /\ (JustExtended /\ pre.w[0].init /\ (pre.w[0].n < MCCC_NSLOTS \/ ~AskedNew)) =>
               err[0] = 0

\* a path grown by extends from one sample to the capacity refused a further
\* sample
C18_Witness ==
    /\ JustExtended /\ pre.w[0].init /\ pre.w[0].n = MCCC_NSLOTS /\ AskedNew
    /\ pre.w[0] # WFull
    /\ err[0] = MCCC_WIENER_EXCEEDEDCAPACITY

(***************************************************************************)
(* Properties of libascot_B_field_rhotheta2rz and hdf5_plasma_init_offload *)
(***************************************************************************)
\* r[j] or z[j] is not what the caller handed in
Written(j) == lib.r[j] # lib.arg.r[j] \/ lib.z[j] # lib.arg.z[j]

\* rho on the magnetic axis could be evaluated and exceeds the queried rho
BelowAxisValue(j) ==
    LET ev == B_field_eval_rho_drho(lib.arg.fld[j], axis_r, axis_z)
    IN  lib.arg.fld[j].axis_ok /\ ev.err = 0 /\ RGt(ev.rho, lib.arg.rho[j])

\* rho at the returned (r[j], z[j]) could be evaluated and is within tol of
\* the queried rho
WithinTol(j) ==
    LET ev == B_field_eval_rho_drho(lib.arg.fld[j], lib.r[j], lib.z[j])
    IN  ev.err = 0 /\ RLt(RAbs(RSub(lib.arg.rho[j], ev.rho)), lib.arg.tol)

\* C19: for every query point j the Newton loop of
\* libascot_B_field_rhotheta2rz runs at most maxiter passes; r[j], z[j] are
\* written only when the queried rho is below the axis value (they are the
\* axis position then) or an iterate has |rho[j] - rho(r,z)| < tol (they are
\* that iterate); when the axis or rho evaluation fails or maxiter passes
\* end without convergence they keep their input values; and every point is
\* processed whatever happened to the others.
C19_WrittenOnlyOnSuccess ==
    \A j \in QueryPoints :
        (Returned /\ op = "rhotheta2rz") =>
            /\ lib.out[j].iters <= lib.arg.maxiter
            /\ lib.out[j].how # "unvisited"
            /\ Written(j) =>
                   \/ BelowAxisValue(j) /\ lib.r[j] = axis_r /\ lib.z[j] = axis_z
                   \/ ~BelowAxisValue(j) /\ WithinTol(j) /\ lib.out[j].iters >= 1
            /\ lib.out[j].how \in {"axis_failed", "rho_failed", "exhausted"} => ~Written(j)
            /\ (~lib.arg.fld[j].axis_ok
                \/ B_field_eval_rho_drho(lib.arg.fld[j], axis_r, axis_z).err # 0
                \/ (~BelowAxisValue(j) /\ lib.arg.maxiter = 0)) => ~Written(j)

\* one point failed or ran out of passes and kept its input values, another
\* converged in its second pass or later and was written
C19_Witness ==
    \E j \in QueryPoints, k \in QueryPoints :
        /\ Returned /\ op = "rhotheta2rz"
        /\ lib.out[j].how \in {"axis_failed", "rho_failed", "exhausted"} /\ ~Written(j)
        /\ lib.out[k].how = "iterate" /\ lib.out[k].iters >= 2 /\ Written(k)
        /\ lib.r[k] # axis_r

H5Returned == Returned /\ op = "hdf5_plasma_init_offload"

Readers == {"hdf5_plasma_read_1D", "hdf5_plasma_read_1DS"}

InitCalled == \E k \in DOMAIN h5.calls : h5.calls[k].fn = "plasma_init_offload"

InitSucceeded ==
    \E k \in DOMAIN h5.calls : h5.calls[k].fn = "plasma_init_offload" /\ h5.calls[k].ret = 0

GroupFound == h5.file.found1D \/ h5.file.found1DS

\* the reader of the group that was found last, plasma_1DS after plasma_1D
LastReader == IF h5.file.found1DS THEN "hdf5_plasma_read_1DS" ELSE "hdf5_plasma_read_1D"

ReaderReturned(fn, zero) ==
    \E k \in DOMAIN h5.calls : h5.calls[k].fn = fn /\ ((h5.calls[k].ret = 0) = zero)

\* C20 as stated: hdf5_plasma_init_offload returns zero if and only if a
\* plasma group for the qid was found, its reader returned zero and
\* plasma_init_offload returned zero; with no group of either type it returns
\* nonzero without calling plasma_init_offload; and when a reader fails
\* plasma_init_offload is not called.
C20_NoInitAfterAnyReaderFailure ==
    H5Returned =>
        /\ (h5.ret = 0) <=>
               (/\ GroupFound
                /\ \E fn \in Readers : ReaderReturned(fn, TRUE)
                /\ InitSucceeded)
        /\ ~GroupFound => (h5.ret # 0 /\ ~InitCalled)
        /\ (\E fn \in Readers : ReaderReturned(fn, FALSE)) => ~InitCalled

\* C20 amended: it returns zero if and only if a plasma group for the qid was
\* found, the reader of the group found last (1DS when both exist) returned
\* zero and plasma_init_offload returned zero; with no group of either type
\* it returns nonzero without calling plasma_init_offload; and when the
\* reader of the group found last fails plasma_init_offload is not called,
\* while it is called when that reader returned zero, whatever an earlier
\* reader returned.
C20_NoInitAfterLastReaderFailure ==
    H5Returned =>
        /\ (h5.ret = 0) <=>
               (GroupFound /\ ReaderReturned(LastReader, TRUE) /\ InitSucceeded)
        /\ ~GroupFound => (h5.ret # 0 /\ ~InitCalled /\ h5.calls = <<>>)
        /\ (GroupFound /\ ReaderReturned(LastReader, FALSE)) => (~InitCalled /\ h5.ret # 0)
        /\ (GroupFound /\ ReaderReturned(LastReader, TRUE)) => InitCalled

\* both groups exist for the qid, the 1D reader failed, the 1DS reader
\* returned zero, plasma_init_offload was called and zero was returned
C20_Witness ==
    /\ H5Returned
    /\ h5.file.found1D /\ h5.file.found1DS
    /\ ReaderReturned("hdf5_plasma_read_1D", FALSE)
    /\ ReaderReturned("hdf5_plasma_read_1DS", TRUE)
    /\ InitSucceeded
    /\ h5.ret = 0
    /\ h5.type = "plasma_type_1DS"

\* the error ratio of a channel of the step controller
RatioOf(k, c) ==
    CASE c = "drift" -> k.kappa_k
      [] c = "diffusion0" -> k.kappa_d0
      [] c = "diffusion1" -> k.kappa_d1
      [] OTHER -> NaN

\* the largest of the three error ratios
MaxRatio(k) ==
    CHOOSE r \in {k.kappa_k, k.kappa_d0, k.kappa_d1} :
        RGe(r, k.kappa_k) /\ RGe(r, k.kappa_d0) /\ RGe(r, k.kappa_d1)

\* the channels that come before c when ratios tie
Earlier(c) ==
    CASE c = "drift" -> {}
      [] c = "diffusion0" -> {"drift"}
      [] OTHER -> {"drift", "diffusion0"}

\* the step size each formula proposes for lane i
Proposal(i, c) ==
    CASE c = "drift" -> StepDrift(hin[i], env[i].push.kappa_k)
      [] c = "diffusion0" -> StepDiff(loc[i].dW[4], env[i].push.kappa_d0)
      [] OTHER -> StepDiff(loc[i].dW[5], env[i].push.kappa_d1)

\* C21: in mccc_step_gc_adaptive (both packages) one of the three step-size
\* formulas is applied per running lane; it belongs to a channel whose error
\* ratio is the maximum of (kappa_k, kappa_d0, kappa_d1), and among tied
\* channels the first of drift, diffusion 0, diffusion 1 is taken.
C21_DominantChannelChosen ==
    \A i \in Lanes :
        (Returned /\ op \in AdaptiveOps /\ WasRunning(i) /\ FiniteRatios(env[i].push)) =>
            LET k == env[i].push
                c == loc[i].channel
            IN  /\ c \in {"drift", "diffusion0", "diffusion1"}
                /\ RatioOf(k, c) = MaxRatio(k)
                /\ \A e \in Earlier(c) : RatioOf(k, e) # MaxRatio(k)
                /\ RAbs(hout[i]) = RAbs(Proposal(i, c))

\* the values the step-size proposal of lane i divides by or raises to the
\* power -1/3: the selected branch in src/simulate/mccc/mccc.c; in the older
\* package dWopt is formed from both diffusion ratios before any branch
Divisors(i) ==
    LET k == env[i].push
    IN  (IF loc[i].channel = "drift" THEN {RSqrt(k.kappa_k)} ELSE {})
        \cup (IF op = "legacy_step_gc_adaptive" THEN {k.kappa_d0, k.kappa_d1}
              ELSE IF loc[i].channel = "drift" THEN {}
              ELSE {RatioOf(k, loc[i].channel)})

\* C22: given non-negative error ratios and hin[i] > 0, the step-size proposal
\* of mccc_step_gc_adaptive never divides by zero and never raises zero to a
\* negative power: sqrt(kappa_k) as divisor, kappa_d0 or kappa_d1 as base of
\* the power -1/3 are strictly positive, also when all three ratios are zero,
\* and the proposal is a finite number.
C22_NoDivisionByZero ==
    \A i \in Lanes :
        (/\ Returned /\ op \in AdaptiveOps /\ WasRunning(i)
         /\ FiniteRatios(env[i].push) /\ RGt(hin[i], R(0))) =>
            /\ \A d \in Divisors(i) : RGt(d, R(0))
            /\ IsFinite(hout[i])

\* C23: the number of plasma species never exceeds MAX_SPECIES: after
\* hdf5_plasma_read_1D or hdf5_plasma_read_1DS returned zero,
\* n_species = n_ions + 1 <= MAX_SPECIES and every index it used for the
\* per-species arrays charge[] and mass[] is below MAX_SPECIES.
C23_SpeciesWithinMaximum ==
    H5Returned =>
        \A k \in DOMAIN h5.calls :
            (h5.calls[k].fn \in Readers /\ h5.calls[k].ret = 0) =>
                /\ h5.calls[k].n_species = h5.file.nion + 1
                /\ h5.calls[k].n_species <= MAX_SPECIES
                /\ h5.calls[k].top < MAX_SPECIES

SimulateGcSteps == {"step_gc_fixed", "step_gc_adaptive"}

\* C24: after a guiding-center step of src/simulate/mccc/mccc.c the toroidal
\* angle is cumulative: the new phi is congruent modulo 2*pi to
\* atan2(Xout[1], Xout[0]) of the pushed position, and it differs from the
\* previous phi by the shortest signed angular displacement, of magnitude at
\* most pi (two quarter turns), also across the 0 / 2*pi cut.
C24_PhiCumulative ==
    \A i \in Lanes :
        (/\ Returned /\ op \in SimulateGcSteps /\ WasRunning(i)
         /\ IsFinite(RAtan2(loc[i].Xout[2], loc[i].Xout[1]))) =>
            /\ RFmod(RSub(p[i].phi, RAtan2(loc[i].Xout[2], loc[i].Xout[1])), R(CONST_2PI)) = R(0)
            /\ ~RGt(RAbs(RSub(p[i].phi, pre.p[i].phi)), RDiv(R(CONST_2PI), R(2)))

LibReturned == Returned /\ op = "libascot_eval"

\* an evaluator called for point k returned nonzero
EvaluatorFailed(k) ==
    \E s \in DOMAIN lib.out[k].calls :
        lib.out[k].calls[s].ev # "isinside" /\ lib.out[k].calls[s].ret # 0

\* every call of the pass of point k was made and none returned nonzero
PassCompleted(k) ==
    /\ Len(lib.out[k].calls) = Len(LibascotFunctions[lib.fn].body)
    /\ \A s \in DOMAIN lib.out[k].calls : lib.out[k].calls[s].ret = 0

\* C25: in every libascot_* evaluation function the outputs of a query point
\* are written all-or-nothing: if an evaluator called for point k returns
\* nonzero, no output array entry of point k is modified, and the loop goes
\* on with point k+1, whose outputs are written when its evaluators succeed.
C25_OutputsAllOrNothing ==
    /\ LibReturned =>
           \A k \in QueryPoints :
               /\ EvaluatorFailed(k) => lib.out[k].written = {}
               /\ PassCompleted(k) =>
                      lib.out[k].written =
                          UNION {LibascotFunctions[lib.fn].body[s].writes :
                                 s \in DOMAIN LibascotFunctions[lib.fn].body}
    /\ (Returned /\ op = "rhotheta2rz") =>
           \A j \in QueryPoints :
               lib.out[j].how \in {"axis_failed", "rho_failed"} => ~Written(j)

\* member m of the local sim was initialised by one of the first n calls of
\* the function
InitialisedBy(n, m) == \E u \in 1..n : m \in lib.calls[u].init

\* C26: initialise-before-use in libascot: in every libascot_* function each
\* member of the local sim_data that is handed to a call has been initialised
\* by its *_init call earlier in the same function.
C26_InitialisedBeforeUse ==
    LibReturned =>
        /\ \A n \in DOMAIN lib.calls :
               \A m \in lib.calls[n].uses : InitialisedBy(n - 1, m)
        /\ \A k \in QueryPoints :
               \A s \in DOMAIN lib.out[k].calls :
                   \A m \in lib.out[k].calls[s].uses : InitialisedBy(Len(lib.calls), m)

\* |B| of the field cached in a lane
CachedBnorm(ln) == math_normc(ln.fld.B_r, ln.fld.B_phi, ln.fld.B_z)

\* the square of the speed a lane holds: vpar^2 + 2*mu*|B|/mass
SpeedSquared(ln) ==
    RAdd(RMul(ln.vpar, ln.vpar), RDiv(RMul(RMul(R(2), ln.mu), CachedBnorm(ln)), ln.mass))

\* C27: in mccc_step_gc_fixed and mccc_step_gc_adaptive the magnetic moment
\* written back is computed with |B| at the post-collision position, the
\* field cached in the lane on return, so that the speed reconstructed from
\* the returned (vpar, mu, cached B) is the push output speed vout.
C27_MuFromFieldAtNewPosition ==
    \A i \in Lanes :
        (/\ Returned /\ op \in SimulateGcSteps /\ WasRunning(i)
         /\ IsFinite(loc[i].vout) /\ IsFinite(loc[i].xiout)
         /\ RGt(CachedBnorm(p[i]), R(0)) /\ IsFinite(CachedBnorm(p[i]))) =>
            /\ p[i].mu = GcMu(loc[i].xiout, loc[i].vout, p[i].mass, CachedBnorm(p[i]))
            /\ SpeedSquared(p[i]) = RMul(loc[i].vout, loc[i].vout)

\* C28: all guiding-center entry points reconstruct the same speed and pitch
\* from the same marker state: the va and xi that mccc_update_gc (and
\* mccc_collfreq_gc, which forms them by the same three statements) hands to
\* the coefficient evaluator are the vin and xiin that mccc_step_gc_fixed and
\* mccc_step_gc_adaptive compute from the same (vpar, mu, mass, |B|).
C28_SameSpeedInEveryEntryPoint ==
    \A i \in Lanes :
        (Returned /\ op = "update_gc" /\ WasRunning(i)) =>
            LET vin == GcSpeed(pre.p[i], CachedBnorm(pre.p[i]))
            IN  /\ loc[i].va = vin
                /\ loc[i].xiin = RDiv(pre.p[i].vpar, vin)
                /\ loc[i].calls[2].v = vin
                /\ loc[i].calls[2].xi = RDiv(pre.p[i].vpar, vin)

\* C29: the two adaptive controllers (src/mccc/mccc.c and
\* src/simulate/mccc/mccc.c) agree on the decision: for the same error
\* ratios, Wiener increments and hin > 0 both reject the same lanes and
\* return hout of the same sign for each running lane.
C29_ControllersAgree ==
    \A i \in Lanes :
        (/\ Returned /\ op \in AdaptiveOps /\ WasRunning(i)
         /\ FiniteRatios(env[i].push) /\ RGt(hin[i], R(0))) =>
            LET new == AdaptiveLane(Before, i)
                old == LegacyAdaptiveLane(Before, i)
            IN  new.loc[i].dW = old.loc[i].dW =>
                    /\ new.loc[i].rejected = old.loc[i].rejected
                    /\ ISign(new.hout[i][1]) = ISign(old.hout[i][1])

\* the push of lane i returned what it was handed: as forced when energy,
\* pitch and spatial-diffusion collisions are all disabled
PushIsIdentity(i) ==
    /\ loc[i].vout = loc[i].vin
    /\ loc[i].xiout = loc[i].xiin
    /\ loc[i].Xout = GcXin(pre.p[i])

\* a running lane of a guiding-center step with mass > 0, |B| > 0, vin > 0
RoundTripLane(i) ==
    /\ Returned /\ op \in SimulateGcSteps /\ WasRunning(i)
    /\ RGt(pre.p[i].mass, R(0))
    /\ RGt(CachedBnorm(pre.p[i]), R(0))
    /\ RGt(loc[i].vin, R(0))
    /\ PushIsIdentity(i)

\* mu, vpar, r and z of lane i are what they were
KineticStateKept(i) ==
    /\ p[i].mu = pre.p[i].mu
    /\ p[i].vpar = pre.p[i].vpar
    /\ p[i].r = pre.p[i].r
    /\ p[i].z = pre.p[i].z

=============================================================================
